---- MODULE Spec2Model ----
(***************************************************************************)
(* Model of the spreadsheet converters of Projeto-automatizar-trabalho:    *)
(*   conversor-simples.js            (strict converter,  script "simples") *)
(*   unnamed/part_001                (conversor-final-corrigido, "v1")     *)
(*   conversor-final-corrigido-v2.js (aggressive description,    "v2")     *)
(* and of the code/description separator                                   *)
(*   unnamed/part_000                (separador-codigo-descricao,          *)
(*                                    script "separador")                  *)
(*                                                                         *)
(* A JavaScript string is a sequence of one-character strings, so that the *)
(* character-level operations of the code (normalize, trim, split,         *)
(* includes, regex tests) are computed and not assumed.  A JavaScript      *)
(* value is a tagged record (string, number, null, undefined).  An object  *)
(* is a sequence of [k, v] entries in insertion order (Object.keys order). *)
(***************************************************************************)
EXTENDS Integers, Sequences, FiniteSets, TLC

VARIABLES
    script,                  \* which converter script is running
    args,                    \* process.argv.slice(2)
    entradaExiste,           \* fs.existsSync(arquivoEntrada)
    planilha,                \* the first worksheet of the input workbook
    produtosAtuaisRaw,       \* rows read by sheet_to_json
    mapaColunasEncontradas,  \* column map returned by diagnosticarColunas
    index,                   \* number of rows the loop has gone through
    produtosNovos,           \* output records
    sucessos,
    falhas,
    erros,
    avisosDescricaoVazia,
    descricoesInferidas,
    saida,                   \* what the run has written: "nenhuma", "xlsx", "csv"
    colunaCodigo,            \* unnamed/part_000: the column taken as the code
    produtosSeparados,       \* unnamed/part_000: output rows
    codigosSemEspaco,
    codigosComEspaco,
    escritas,                \* the writes attempted: [arquivo, formato, falhou]
    erroCapturado,           \* what the catch of iniciar()/main() received
    pc                       \* position of iniciar(): "inicio", "laco", "salvar", "fim"

vars == <<script, args, entradaExiste, planilha, produtosAtuaisRaw, mapaColunasEncontradas,
          index, produtosNovos, sucessos, falhas, erros, avisosDescricaoVazia,
          descricoesInferidas, saida, colunaCodigo, produtosSeparados, codigosSemEspaco,
          codigosComEspaco, escritas, erroCapturado, pc>>

\* the locals of main() of unnamed/part_000
varsSeparador == <<colunaCodigo, produtosSeparados, codigosSemEspaco, codigosComEspaco>>

\* what the end of a run leaves
varsEscrita == <<escritas, erroCapturado>>

(***************************************************************************)
(* JavaScript values                                                       *)
(***************************************************************************)
Str(s) == [t |-> "string", s |-> s]
\* a finite number num/den, den a power of ten, in lowest decimal form
Num(n) == [t |-> "number", num |-> n, den |-> 1]
Null == [t |-> "null"]
Undefined == [t |-> "undefined"]
NaN == [t |-> "NaN"]
Vazia == Str(<<>>)           \* the empty string ''

EhString(v) == v.t = "string"
EhNumero(v) == v.t = "number"

(***************************************************************************)
(* Characters                                                              *)
(***************************************************************************)
\* String.prototype.toLowerCase() on the letters of the Portuguese alphabet
Minusculas ==
    ("A" :> "a") @@ ("B" :> "b") @@ ("C" :> "c") @@ ("D" :> "d") @@ ("E" :> "e") @@ ("F" :> "f") @@
    ("G" :> "g") @@ ("H" :> "h") @@ ("I" :> "i") @@ ("J" :> "j") @@ ("K" :> "k") @@ ("L" :> "l") @@
    ("M" :> "m") @@ ("N" :> "n") @@ ("O" :> "o") @@ ("P" :> "p") @@ ("Q" :> "q") @@ ("R" :> "r") @@
    ("S" :> "s") @@ ("T" :> "t") @@ ("U" :> "u") @@ ("V" :> "v") @@ ("W" :> "w") @@ ("X" :> "x") @@
    ("Y" :> "y") @@ ("Z" :> "z") @@ ("Á" :> "á") @@ ("À" :> "à") @@ ("Â" :> "â") @@ ("Ã" :> "ã") @@
    ("É" :> "é") @@ ("Ê" :> "ê") @@ ("Í" :> "í") @@ ("Ó" :> "ó") @@ ("Ô" :> "ô") @@ ("Õ" :> "õ") @@
    ("Ú" :> "ú") @@ ("Ü" :> "ü") @@ ("Ç" :> "ç")

\* normalize('NFD').replace(/[\u0300-\u036f]/g, '') on the precomposed letters of
\* the Portuguese alphabet: the base letter is left
LetrasBase ==
    ("á" :> "a") @@ ("à" :> "a") @@ ("â" :> "a") @@ ("ã" :> "a") @@ ("é" :> "e") @@ ("ê" :> "e") @@
    ("í" :> "i") @@ ("ó" :> "o") @@ ("ô" :> "o") @@ ("õ" :> "o") @@ ("ú" :> "u") @@ ("ü" :> "u") @@
    ("ç" :> "c") @@ ("Á" :> "A") @@ ("À" :> "A") @@ ("Â" :> "A") @@ ("Ã" :> "A") @@ ("É" :> "E") @@
    ("Ê" :> "E") @@ ("Í" :> "I") @@ ("Ó" :> "O") @@ ("Ô" :> "O") @@ ("Õ" :> "O") @@ ("Ú" :> "U") @@
    ("Ü" :> "U") @@ ("Ç" :> "C")

\* one character through normalize('NFD').replace(/[\u0300-\u036f]/g, '')
removerAcento(c) == IF c \in DOMAIN LetrasBase THEN LetrasBase[c] ELSE c

\* one character through toLowerCase()
toLowerCase(c) == IF c \in DOMAIN Minusculas THEN Minusculas[c] ELSE c

\* /[a-zA-Z]/ on one character
LetrasAscii == {"a","b","c","d","e","f","g","h","i","j","k","l","m","n","o","p","q","r","s","t","u","v","w","x","y","z",
                "A","B","C","D","E","F","G","H","I","J","K","L","M","N","O","P","Q","R","S","T","U","V","W","X","Y","Z"}
EhLetraAscii(c) == c \in LetrasAscii

\* the white space String.prototype.trim() removes
EhEspacoBranco(c) == c \in {" ", "\t", "\n"}

Digitos == <<"0","1","2","3","4","5","6","7","8","9">>
ValorDosDigitos ==
    ("0" :> 0) @@ ("1" :> 1) @@ ("2" :> 2) @@ ("3" :> 3) @@ ("4" :> 4) @@ ("5" :> 5) @@
    ("6" :> 6) @@ ("7" :> 7) @@ ("8" :> 8) @@ ("9" :> 9)
EhDigito(c) == c \in DOMAIN ValorDosDigitos
ValorDigito(c) == ValorDosDigitos[c]

(***************************************************************************)
(* Strings                                                                 *)
(***************************************************************************)
RECURSIVE trimStart(_)
trimStart(s) == IF s # <<>> /\ EhEspacoBranco(Head(s)) THEN trimStart(Tail(s)) ELSE s

RECURSIVE trimEnd(_)
trimEnd(s) == IF s # <<>> /\ EhEspacoBranco(s[Len(s)])
              THEN trimEnd(SubSeq(s, 1, Len(s) - 1)) ELSE s

trim(s) == trimEnd(trimStart(s))

\* s.includes(sub)
includes(s, sub) == \E i \in 1..(Len(s) - Len(sub) + 1) : SubSeq(s, i, i + Len(sub) - 1) = sub

\* s.split(' '): the pieces between single spaces, empty pieces kept
RECURSIVE split(_, _)
split(s, sep) ==
    IF \E i \in 1..Len(s) : s[i] = sep
    THEN LET i == CHOOSE i \in 1..Len(s) : s[i] = sep /\ \A j \in 1..(i - 1) : s[j] # sep
         IN <<SubSeq(s, 1, i - 1)>> \o split(SubSeq(s, i + 1, Len(s)), sep)
    ELSE <<s>>

\* partes.join(' ')
RECURSIVE join(_, _)
join(partes, sep) ==
    IF partes = <<>> THEN <<>>
    ELSE IF Len(partes) = 1 THEN partes[1]
    ELSE partes[1] \o <<sep>> \o join(Tail(partes), sep)

\* partes.slice(1)
slice1(partes) == IF partes = <<>> THEN <<>> ELSE Tail(partes)

(***************************************************************************)
(* Header names of the code, as character sequences                        *)
(***************************************************************************)
\* 'Catálogo', 'Catalogo'
nomesCatalogo ==
    <<<<"C","a","t","á","l","o","g","o">>,
      <<"C","a","t","a","l","o","g","o">>>>

\* 'Código', 'Codigo'
nomesCodigo ==
    <<<<"C","ó","d","i","g","o">>,
      <<"C","o","d","i","g","o">>>>

\* 'Descrição', 'Descricao'
nomesDescricaoMapa ==
    <<<<"D","e","s","c","r","i","ç","ã","o">>,
      <<"D","e","s","c","r","i","c","a","o">>>>

\* 'Descrição', 'Descricao', 'Descr'
nomesDescricao ==
    <<<<"D","e","s","c","r","i","ç","ã","o">>,
      <<"D","e","s","c","r","i","c","a","o">>,
      <<"D","e","s","c","r">>>>

\* 'Unidade'
nomesUnidade ==
    <<<<"U","n","i","d","a","d","e">>>>

\* 'NCM', 'Classificação Fiscal', 'Classificacao Fiscal'
nomesNcm ==
    <<<<"N","C","M">>,
      <<"C","l","a","s","s","i","f","i","c","a","ç","ã","o"," ","F","i","s","c","a","l">>,
      <<"C","l","a","s","s","i","f","i","c","a","c","a","o"," ","F","i","s","c","a","l">>>>

\* 'Preço Varejo', 'Preco Varejo'
nomesPrecoVarejo ==
    <<<<"P","r","e","ç","o"," ","V","a","r","e","j","o">>,
      <<"P","r","e","c","o"," ","V","a","r","e","j","o">>>>

\* 'Preço Atacado', 'Preco Atacado'
nomesPrecoAtacado ==
    <<<<"P","r","e","ç","o"," ","A","t","a","c","a","d","o">>,
      <<"P","r","e","c","o"," ","A","t","a","c","a","d","o">>>>

\* 'Preço Promoção', 'Preco Promocao'
nomesPrecoPromocao ==
    <<<<"P","r","e","ç","o"," ","P","r","o","m","o","ç","ã","o">>,
      <<"P","r","e","c","o"," ","P","r","o","m","o","c","a","o">>>>

\* 'Saldo Estoque', 'Estoque'
nomesEstoque ==
    <<<<"S","a","l","d","o"," ","E","s","t","o","q","u","e">>,
      <<"E","s","t","o","q","u","e">>>>

\* 'Preço Compra', 'Preco Compra'
nomesPrecoCompra ==
    <<<<"P","r","e","ç","o"," ","C","o","m","p","r","a">>,
      <<"P","r","e","c","o"," ","C","o","m","p","r","a">>>>

\* 'Código Original', 'Codigo Original'
nomesCodigoOriginal ==
    <<<<"C","ó","d","i","g","o"," ","O","r","i","g","i","n","a","l">>,
      <<"C","o","d","i","g","o"," ","O","r","i","g","i","n","a","l">>>>

\* 'Fornecedor'
nomesFornecedor ==
    <<<<"F","o","r","n","e","c","e","d","o","r">>>>

\* 'Endereço', 'Endereco'
nomesEndereco ==
    <<<<"E","n","d","e","r","e","ç","o">>,
      <<"E","n","d","e","r","e","c","o">>>>

\* 'Endereço 2', 'Endereco 2'
nomesEndereco2 ==
    <<<<"E","n","d","e","r","e","ç","o"," ","2">>,
      <<"E","n","d","e","r","e","c","o"," ","2">>>>

\* 'Garantia'
nomesGarantia ==
    <<<<"G","a","r","a","n","t","i","a">>>>

\* 'Pendência', 'Pendencia'
nomesPendencia ==
    <<<<"P","e","n","d","ê","n","c","i","a">>,
      <<"P","e","n","d","e","n","c","i","a">>>>

\* 'Linha'
nomesLinha ==
    <<<<"L","i","n","h","a">>>>

\* 'Grupo'
nomesGrupo ==
    <<<<"G","r","u","p","o">>>>

\* 'Descrição', 'Descricao', 'Descr', 'Desc', 'Description', 'Nome', 'Nome do Produto', 'Produto', 'Denominação', 'Denominacao'
colunasDescricao ==
    <<<<"D","e","s","c","r","i","ç","ã","o">>,
      <<"D","e","s","c","r","i","c","a","o">>,
      <<"D","e","s","c","r">>,
      <<"D","e","s","c">>,
      <<"D","e","s","c","r","i","p","t","i","o","n">>,
      <<"N","o","m","e">>,
      <<"N","o","m","e"," ","d","o"," ","P","r","o","d","u","t","o">>,
      <<"P","r","o","d","u","t","o">>,
      <<"D","e","n","o","m","i","n","a","ç","ã","o">>,
      <<"D","e","n","o","m","i","n","a","c","a","o">>>>

\* 'codigo', 'preco', 'valor', 'ncm', 'unidade'
colunasExcluidas ==
    <<<<"c","o","d","i","g","o">>,
      <<"p","r","e","c","o">>,
      <<"v","a","l","o","r">>,
      <<"n","c","m">>,
      <<"u","n","i","d","a","d","e">>>>

\* the keys conversor-simples.js reads, by the local they feed
chavesSimples ==
    [codigo |-> <<"C","ó","d","i","g","o">>,
     descricao |-> <<"D","e","s","c","r","i","ç","ã","o">>,
     precoAtacado |-> <<"P","r","e","ç","o"," ","A","t","a","c","a","d","o">>,
     precoPromocao |-> <<"P","r","e","ç","o"," ","P","r","o","m","o","ç","ã","o">>,
     endereco2 |-> <<"E","n","d","e","r","e","ç","o"," ","2">>,
     pendencia |-> <<"P","e","n","d","ê","n","c","i","a">>,
     unidade |-> <<"U","n","i","d","a","d","e">>,
     ncm |-> <<"C","l","a","s","s","i","f","i","c","a","ç","ã","o"," ","F","i","s","c","a","l">>,
     precoVarejo |-> <<"P","r","e","ç","o"," ","V","a","r","e","j","o">>,
     estoque |-> <<"S","a","l","d","o"," ","E","s","t","o","q","u","e">>,
     precoCompra |-> <<"P","r","e","ç","o"," ","C","o","m","p","r","a">>,
     codigoOriginal |-> <<"C","ó","d","i","g","o"," ","O","r","i","g","i","n","a","l">>,
     fornecedor |-> <<"F","o","r","n","e","c","e","d","o","r">>,
     endereco |-> <<"E","n","d","e","r","e","ç","o">>,
     linha |-> <<"L","i","n","h","a">>,
     garantia |-> <<"G","a","r","a","n","t","i","a">>,
     grupo |-> <<"G","r","u","p","o">>]


(***************************************************************************)
(* JavaScript conversions                                                  *)
(***************************************************************************)
\* ToBoolean, as used by `!x`, `x || y`, `if (x)`
Truthy(v) ==
    CASE v.t = "string" -> v.s # <<>>
      [] v.t = "number" -> v.num # 0
      [] OTHER -> FALSE

RECURSIVE Pot10(_)
Pot10(k) == IF k = 0 THEN 1 ELSE 10 * Pot10(k - 1)

\* the number num / 10^casas with trailing decimal zeros removed
RECURSIVE Decimal(_, _)
Decimal(num, casas) ==
    IF casas > 0 /\ num % 10 = 0 THEN Decimal(num \div 10, casas - 1)
    ELSE [t |-> "number", num |-> num, den |-> Pot10(casas)]

RECURSIVE ValorDigitos(_)
ValorDigitos(ds) ==
    IF ds = <<>> THEN 0 ELSE 10 * ValorDigitos(SubSeq(ds, 1, Len(ds) - 1)) + ValorDigito(ds[Len(ds)])

RECURSIVE DigitosDe(_)
DigitosDe(n) == IF n < 10 THEN <<Digitos[n + 1]>> ELSE DigitosDe(n \div 10) \o <<Digitos[(n % 10) + 1]>>

RECURSIVE CasasDe(_)
CasasDe(den) == IF den = 1 THEN 0 ELSE 1 + CasasDe(den \div 10)

RECURSIVE ZerosAEsquerda(_, _)
ZerosAEsquerda(ds, n) == IF Len(ds) >= n THEN ds ELSE ZerosAEsquerda(<<"0">> \o ds, n)

\* Number.prototype.toString() of a finite number in decimal notation
NumeroParaTexto(v) ==
    LET abs == IF v.num < 0 THEN 0 - v.num ELSE v.num
        sinal == IF v.num < 0 THEN <<"-">> ELSE <<>>
        inteiro == DigitosDe(abs \div v.den)
        fracao == ZerosAEsquerda(DigitosDe(abs % v.den), CasasDe(v.den))
    IN IF v.den = 1 THEN sinal \o inteiro ELSE sinal \o inteiro \o <<".">> \o fracao

\* String(valor), also the conversion of `${valor}` in a template literal
String(v) ==
    CASE v.t = "string" -> v.s
      [] v.t = "number" -> NumeroParaTexto(v)
      [] v.t = "null" -> <<"n","u","l","l">>
      [] v.t = "undefined" -> <<"u","n","d","e","f","i","n","e","d">>
      [] OTHER -> <<"N","a","N">>

\* the digits before the first "." of a number literal without sign
parteInteira(corpo) ==
    IF \E i \in 1..Len(corpo) : corpo[i] = "."
    THEN SubSeq(corpo, 1, (CHOOSE i \in 1..Len(corpo) :
                              corpo[i] = "." /\ \A j \in 1..(i - 1) : corpo[j] # ".") - 1)
    ELSE corpo

\* what follows the first "."
parteFracionaria(corpo) ==
    IF \E i \in 1..Len(corpo) : corpo[i] = "."
    THEN SubSeq(corpo, (CHOOSE i \in 1..Len(corpo) :
                           corpo[i] = "." /\ \A j \in 1..(i - 1) : corpo[j] # ".") + 1, Len(corpo))
    ELSE <<>>

numeroDe(negativo, inteiro, fracao) ==
    IF /\ \A i \in 1..Len(inteiro) : EhDigito(inteiro[i])
       /\ \A i \in 1..Len(fracao) : EhDigito(fracao[i])
       /\ Len(inteiro) + Len(fracao) > 0
    THEN Decimal((IF negativo THEN -1 ELSE 1)
                    * (ValorDigitos(inteiro) * Pot10(Len(fracao)) + ValorDigitos(fracao)),
                 Len(fracao))
    ELSE NaN

numeroAparado(t0) ==
    IF t0 = <<>> THEN Num(0)
    ELSE IF t0[1] \in {"+", "-"}
         THEN numeroDe(t0[1] = "-", parteInteira(Tail(t0)), parteFracionaria(Tail(t0)))
         ELSE numeroDe(FALSE, parteInteira(t0), parteFracionaria(t0))

\* Number(texto) for the decimal literals [+-]digits[.digits] (white space around
\* them allowed, the empty string is 0); anything else is NaN
Number(texto) == numeroAparado(trim(texto))

\* texto.replace(/\./g, '')
removerPontos(s) == SelectSeq(s, LAMBDA c : c # ".")

\* texto.replace(',', '.'): only the first comma
trocarVirgula(s) ==
    IF \E i \in 1..Len(s) : s[i] = ","
    THEN LET i == CHOOSE i \in 1..Len(s) : s[i] = "," /\ \A j \in 1..(i - 1) : s[j] # ","
         IN [s EXCEPT ![i] = "."]
    ELSE s

\* `isNaN(valorConvertido) ? valorPadrao : valorConvertido`
seNaN(valorConvertido, valorPadrao) ==
    IF valorConvertido.t = "NaN" THEN valorPadrao ELSE valorConvertido

\* a parseNumero that gives null, not the default, for a value it cannot convert
parseNumeroOuNull(valor, valorPadrao) ==
    IF valor.t \in {"undefined", "null"} \/ valor = Vazia THEN Null
    ELSE IF valor.t = "NaN" THEN Null
    ELSE IF valor.t = "number" THEN valor
    ELSE seNaN(Number(trocarVirgula(removerPontos(String(valor)))), Null)

\* parseNumero of unnamed/part_001 and conversor-final-corrigido-v2.js
parseNumero(valor, valorPadrao) ==
    IF valor.t \in {"undefined", "null"} \/ valor = Vazia THEN valorPadrao
    ELSE IF valor.t = "NaN" THEN valorPadrao
    ELSE IF valor.t = "number" THEN valor
    ELSE seNaN(Number(trocarVirgula(removerPontos(String(valor)))), valorPadrao)

\* parseNumero of conversor-simples.js
parseNumeroSimples(valor, valorPadrao) ==
    IF valor.t \in {"undefined", "null"} \/ valor = Vazia THEN valorPadrao
    ELSE IF valor.t = "NaN" THEN valorPadrao
    ELSE IF valor.t = "number" THEN valor
    ELSE seNaN(Number(trocarVirgula(String(valor))), valorPadrao)

(***************************************************************************)
(* Objects: rows and records                                               *)
(***************************************************************************)
\* obj.hasOwnProperty(nome)
hasOwnProperty(obj, nome) == \E i \in 1..Len(obj) : obj[i].k = nome

\* obj[nome]
Obter(obj, nome) ==
    IF hasOwnProperty(obj, nome)
    THEN obj[CHOOSE i \in 1..Len(obj) : obj[i].k = nome].v
    ELSE Undefined

\* Object.keys(obj)
keys(obj) == [i \in 1..Len(obj) |-> obj[i].k]

(***************************************************************************)
(* Column resolution (unnamed/part_001, conversor-final-corrigido-v2.js)   *)
(***************************************************************************)
normalizar(texto) ==
    IF texto = <<>> THEN <<>>
    ELSE trim([i \in 1..Len(texto) |-> toLowerCase(removerAcento(texto[i]))])

\* first loop of encontrarColuna: the candidates in order, exact match
RECURSIVE correspondenciaExata(_, _)
correspondenciaExata(obj, possiveisNomes) ==
    IF possiveisNomes = <<>> THEN Null
    ELSE IF hasOwnProperty(obj, Head(possiveisNomes)) THEN Str(Head(possiveisNomes))
    ELSE correspondenciaExata(obj, Tail(possiveisNomes))

\* a second loop that goes through the candidates in order instead of the keys
RECURSIVE correspondenciaPorCandidato(_, _)
correspondenciaPorCandidato(todasChaves, normalizados) ==
    IF normalizados = <<>> THEN Null
    ELSE IF \E i \in 1..Len(todasChaves) : normalizar(todasChaves[i]) = Head(normalizados)
         THEN Str(todasChaves[CHOOSE i \in 1..Len(todasChaves) :
                                 /\ normalizar(todasChaves[i]) = Head(normalizados)
                                 /\ \A j \in 1..(i - 1) :
                                       normalizar(todasChaves[j]) # Head(normalizados)])
         ELSE correspondenciaPorCandidato(todasChaves, Tail(normalizados))

\* second loop of encontrarColuna: the keys in order, normalized match
RECURSIVE correspondenciaNormalizada(_, _)
correspondenciaNormalizada(todasChaves, normalizados) ==
    IF todasChaves = <<>> THEN Null
    ELSE LET chaveNormalizada == normalizar(Head(todasChaves))
         IN IF \E i \in 1..Len(normalizados) : normalizados[i] = chaveNormalizada
            THEN Str(Head(todasChaves))
            ELSE correspondenciaNormalizada(Tail(todasChaves), normalizados)

encontrarColuna(obj, possiveisNomes) ==
    IF correspondenciaExata(obj, possiveisNomes) # Null
    THEN correspondenciaExata(obj, possiveisNomes)
    ELSE correspondenciaNormalizada(keys(obj),
            [i \in 1..Len(possiveisNomes) |-> normalizar(possiveisNomes[i])])

estaVazio(valor) ==
    \/ valor.t \in {"undefined", "null"}
    \/ valor.t = "string" /\ trim(valor.s) = <<>>

\* the end of obterValorSeguro, once the column name is resolved
valorDaColuna(obj, nomeEncontrado, valorPadrao) ==
    IF Truthy(nomeEncontrado)
    THEN LET valor == Obter(obj, nomeEncontrado.s)
         IN IF valor.t \in {"undefined", "null"} THEN valorPadrao
            ELSE IF valor.t = "string" /\ trim(valor.s) = <<>> THEN valorPadrao
            ELSE valor
    ELSE valorPadrao

\* a lookup that takes the first filled header that matches a name, whichever
\* header the resolution picked
obterValorSeguroPreenchido(obj, nomes, valorPadrao) ==
    LET preenchidas ==
            SelectSeq(obj, LAMBDA e :
                /\ ~estaVazio(e.v)
                /\ \E i \in 1..Len(nomes) :
                      e.k = nomes[i] \/ normalizar(e.k) = normalizar(nomes[i]))
    IN IF preenchidas # <<>> THEN preenchidas[1].v ELSE valorPadrao

\* obterValorSeguro of the two column-resolving scripts; nomes is the array
obterValorSeguro(obj, nomes, valorPadrao) ==
    valorDaColuna(obj, encontrarColuna(obj, nomes), valorPadrao)

\* `mapa.campo || [candidates]` followed by the Array.isArray wrapping of
\* obterValorSeguro: a header found by the diagnosis is looked up alone
nomesOu(coluna, candidatos) == IF Truthy(coluna) THEN <<coluna.s>> ELSE candidatos

\* obterValorSeguro of conversor-simples.js: one key, no resolution
obterValorSeguroSimples(obj, chave, valorPadrao) ==
    LET valor == Obter(obj, chave)
    IN IF valor.t \in {"undefined", "null"} THEN valorPadrao ELSE valor


(***************************************************************************)
(* The output record                                                       *)
(***************************************************************************)
\* the object literal converterProduto returns (the same 59 keys, in the same
\* order, in the three scripts); c holds the locals the literal reads
montarProduto(c) ==
    <<[k |-> "ID", v |-> c.ID],
      [k |-> "Código", v |-> c.codigo],
      [k |-> "Descrição", v |-> c.descricao],
      [k |-> "Unidade", v |-> c.unidade],
      [k |-> "NCM", v |-> c.ncm],
      [k |-> "Origem", v |-> Vazia],
      [k |-> "Preço", v |-> c.preco],
      [k |-> "Valor IPI fixo", v |-> Null],
      [k |-> "Observações", v |-> c.observacoes],
      [k |-> "Situação", v |-> Vazia],
      [k |-> "Estoque", v |-> c.estoque],
      [k |-> "Preço de custo", v |-> c.precoCompra],
      [k |-> "Cód no fornecedor", v |-> c.codigoOriginal],
      [k |-> "Fornecedor", v |-> c.fornecedor],
      [k |-> "Localização", v |-> c.endereco],
      [k |-> "Estoque maximo", v |-> Null],
      [k |-> "Estoque minimo", v |-> Null],
      [k |-> "Peso líquido (Kg)", v |-> Null],
      [k |-> "Peso bruto (Kg)", v |-> Null],
      [k |-> "GTIN/EAN", v |-> Vazia],
      [k |-> "GTIN/EAN da embalagem", v |-> Vazia],
      [k |-> "Largura do Produto", v |-> Null],
      [k |-> "Altura do Produto", v |-> Null],
      [k |-> "Profundidade do produto", v |-> Null],
      [k |-> "Data Validade", v |-> Vazia],
      [k |-> "Descrição do Produto no Fornecedor", v |-> Vazia],
      [k |-> "Descrição Complementar", v |-> Vazia],
      [k |-> "Itens p/ caixa", v |-> Null],
      [k |-> "Produto Variação", v |-> Vazia],
      [k |-> "Tipo Produção", v |-> Vazia],
      [k |-> "Classe de enquadramento do IPI", v |-> Vazia],
      [k |-> "Código da lista de serviços", v |-> Vazia],
      [k |-> "Tipo do item", v |-> Vazia],
      [k |-> "Grupo de Tags/Tags", v |-> Vazia],
      [k |-> "Tributos", v |-> Vazia],
      [k |-> "Código Pai", v |-> Vazia],
      [k |-> "Código Integração", v |-> Vazia],
      [k |-> "Grupo de produtos", v |-> c.linha],
      [k |-> "Marca", v |-> Vazia],
      [k |-> "CEST", v |-> Vazia],
      [k |-> "Volumes", v |-> Null],
      [k |-> "Descrição Curta", v |-> Vazia],
      [k |-> "Cross-Docking", v |-> Vazia],
      [k |-> "URL Imagens Externas", v |-> Vazia],
      [k |-> "Link Externo", v |-> Vazia],
      [k |-> "Meses Garantia no Fornecedor", v |-> c.garantia],
      [k |-> "Clonar dados do pai", v |-> Vazia],
      [k |-> "Condição do produto", v |-> Vazia],
      [k |-> "Frete Grátis", v |-> Vazia],
      [k |-> "Número FCI", v |-> Vazia],
      [k |-> "Vídeo", v |-> Vazia],
      [k |-> "Departamento", v |-> c.grupo],
      [k |-> "Unidade de medida", v |-> Vazia],
      [k |-> "Preço de compra", v |-> c.precoCompra],
      [k |-> "Valor base ICMS ST para retenção", v |-> Null],
      [k |-> "Valor ICMS ST para retenção", v |-> Null],
      [k |-> "Valor ICMS próprio do substituto", v |-> Null],
      [k |-> "Categoria do produto", v |-> Vazia],
      [k |-> "Informações Adicionais", v |-> c.infoAdicionais]>>

\* produto[coluna] of an output record
Campo(produto, coluna) == produto[CHOOSE i \in 1..Len(produto) : produto[i].k = coluna].v

\* `Preço atacado: ${valor}; ` and the three other segments
segmento(rotulo, valor) == rotulo \o <<":", " ">> \o String(valor) \o <<";", " ">>

rotuloAtacado == <<"P","r","e","ç","o"," ","a","t","a","c","a","d","o">>
rotuloPromocao == <<"P","r","e","ç","o"," ","p","r","o","m","o","ç","ã","o">>
rotuloEndereco2 == <<"E","n","d","e","r","e","ç","o"," ","2">>
rotuloPendencia == <<"P","e","n","d","ê","n","c","i","a">>


(***************************************************************************)
(* conversor-simples.js                                                    *)
(***************************************************************************)
\* converterProduto: [ok |-> TRUE, produto] or [ok |-> FALSE, mensagem] (a throw)
converterProdutoSimples(produtoAtual) ==
    LET ch == chavesSimples
        codigo == obterValorSeguroSimples(produtoAtual, ch.codigo, Vazia)
        precoAtacado == obterValorSeguroSimples(produtoAtual, ch.precoAtacado, Vazia)
        precoPromocao == obterValorSeguroSimples(produtoAtual, ch.precoPromocao, Vazia)
        endereco2 == obterValorSeguroSimples(produtoAtual, ch.endereco2, Vazia)
        pendencia == obterValorSeguroSimples(produtoAtual, ch.pendencia, Vazia)
        observacoes ==
            (IF Truthy(precoAtacado) THEN segmento(rotuloAtacado, precoAtacado) ELSE <<>>)
            \o (IF Truthy(precoPromocao) THEN segmento(rotuloPromocao, precoPromocao) ELSE <<>>)
        infoAdicionais ==
            (IF Truthy(endereco2) THEN segmento(rotuloEndereco2, endereco2) ELSE <<>>)
            \o (IF Truthy(pendencia) THEN segmento(rotuloPendencia, pendencia) ELSE <<>>)
    IN IF ~Truthy(codigo)
       THEN [ok |-> FALSE,
             mensagem |-> [causa |-> "Campo Código é obrigatório", codigo |-> codigo]]
       ELSE [ok |-> TRUE,
             produto |-> montarProduto(
                [ID |-> Null,
                 codigo |-> codigo,
                 descricao |-> obterValorSeguroSimples(produtoAtual, ch.descricao, Vazia),
                 unidade |-> obterValorSeguroSimples(produtoAtual, ch.unidade, Vazia),
                 ncm |-> obterValorSeguroSimples(produtoAtual, ch.ncm, Vazia),
                 preco |-> parseNumeroSimples(Obter(produtoAtual, ch.precoVarejo), Num(0)),
                 observacoes |-> Str(observacoes),
                 estoque |-> parseNumeroSimples(Obter(produtoAtual, ch.estoque), Num(0)),
                 precoCompra |-> parseNumeroSimples(Obter(produtoAtual, ch.precoCompra), Num(0)),
                 codigoOriginal |-> obterValorSeguroSimples(produtoAtual, ch.codigoOriginal, Vazia),
                 fornecedor |-> obterValorSeguroSimples(produtoAtual, ch.fornecedor, Vazia),
                 endereco |-> obterValorSeguroSimples(produtoAtual, ch.endereco, Vazia),
                 linha |-> obterValorSeguroSimples(produtoAtual, ch.linha, Vazia),
                 garantia |-> obterValorSeguroSimples(produtoAtual, ch.garantia, Vazia),
                 grupo |-> obterValorSeguroSimples(produtoAtual, ch.grupo, Vazia),
                 infoAdicionais |-> Str(infoAdicionais)])]

\* an ID that counts the records written so far instead of the rows read
definirIDRenumerado(produtoNovo, id) ==
    [i \in 1..Len(produtoNovo) |->
        IF produtoNovo[i].k = "ID"
        THEN [k |-> "ID", v |-> Num(sucessos + 1)]
        ELSE produtoNovo[i]]

\* produtoNovo.ID = index + 1: the key exists already, its place is kept
definirID(produtoNovo, id) ==
    [i \in 1..Len(produtoNovo) |->
        IF produtoNovo[i].k = "ID" THEN [k |-> "ID", v |-> Num(id)] ELSE produtoNovo[i]]

\* a loop that swallows a failure without counting it
tentarSimplesSemContar(idx, acc, r) ==
    IF r.ok
    THEN [acc EXCEPT !.produtosNovos = Append(@, definirID(r.produto, idx + 1)),
                     !.sucessos = @ + 1]
    ELSE [acc EXCEPT !.erros = Append(@, [produto |-> idx + 1, mensagem |-> r.mensagem])]

\* a loop that gives up the records collected so far when a row fails
tentarSimplesPerdendo(idx, acc, r) ==
    IF r.ok
    THEN [acc EXCEPT !.produtosNovos = Append(@, definirID(r.produto, idx + 1)),
                     !.sucessos = @ + 1]
    ELSE [acc EXCEPT !.produtosNovos = <<>>,
                     !.erros = Append(@, [produto |-> idx + 1, mensagem |-> r.mensagem]),
                     !.falhas = @ + 1]

\* the try/catch of the row loop of conversor-simples.js around the conversion r
tentarSimples(idx, acc, r) ==
    IF r.ok
    THEN [acc EXCEPT !.produtosNovos = Append(@, definirID(r.produto, idx + 1)),
                     !.sucessos = @ + 1]
    ELSE [acc EXCEPT !.erros = Append(@, [produto |-> idx + 1, mensagem |-> r.mensagem]),
                     !.falhas = @ + 1]

\* `if (!obterValorSeguro(produtoRaw, 'Descrição')) avisosDescricaoVazia.push(index + 1)`
avisarSimples(idx, produtoRaw, acc) ==
    IF ~Truthy(obterValorSeguroSimples(produtoRaw, chavesSimples.descricao, Vazia))
    THEN [acc EXCEPT !.avisosDescricaoVazia = Append(@, idx + 1)]
    ELSE acc

\* one pass of the row loop of conversor-simples.js on row number index (from 0)
iteracaoSimples(mapa, idx, produtoRaw, acc) ==
    tentarSimples(idx, avisarSimples(idx, produtoRaw, acc), converterProdutoSimples(produtoRaw))

(***************************************************************************)
(* unnamed/part_001 (conversor-final-corrigido.js)                         *)
(***************************************************************************)
\* the candidate names of the locals of converterProduto that are read through
\* the column map
candidatosDiretos ==
    [unidade |-> nomesUnidade, ncm |-> nomesNcm, precoVarejo |-> nomesPrecoVarejo,
     precoAtacado |-> nomesPrecoAtacado, precoPromocao |-> nomesPrecoPromocao,
     estoque |-> nomesEstoque, precoCompra |-> nomesPrecoCompra,
     codigoOriginal |-> nomesCodigoOriginal, fornecedor |-> nomesFornecedor,
     endereco |-> nomesEndereco, endereco2 |-> nomesEndereco2, garantia |-> nomesGarantia,
     pendencia |-> nomesPendencia, linha |-> nomesLinha, grupo |-> nomesGrupo]

\* `mapaColunas.campo`: the map has no codigoOriginal
colunaDoMapa(mapa, campo) == IF campo \in DOMAIN mapa THEN mapa[campo] ELSE Undefined

\* those locals: obterValorSeguro(produtoAtual, mapaColunas.campo || [candidates])
camposDiretos(produtoAtual, mapa) ==
    [campo \in DOMAIN candidatosDiretos |->
        obterValorSeguro(produtoAtual,
                         nomesOu(colunaDoMapa(mapa, campo), candidatosDiretos[campo]), Vazia)]

\* one segment of a composite text, or nothing for an empty value
segmentoSeHouver(rotulo, valor) == IF ~estaVazio(valor) THEN segmento(rotulo, valor) ELSE <<>>

\* the rest of converterProduto, the same in part_001 and in v2: the locals
\* the object literal reads, the two composite texts among them; cd holds
\* codigo and descricao
locaisDe(idx, cd, d) ==
    [ID |-> Num(idx + 1),
     codigo |-> cd.codigo,
     descricao |-> cd.descricao,
     unidade |-> d.unidade,
     ncm |-> d.ncm,
     preco |-> parseNumero(d.precoVarejo, Num(0)),
     observacoes |-> Str(segmentoSeHouver(rotuloAtacado, d.precoAtacado)
                         \o segmentoSeHouver(rotuloPromocao, d.precoPromocao)),
     estoque |-> parseNumero(d.estoque, Num(0)),
     precoCompra |-> parseNumero(d.precoCompra, Num(0)),
     codigoOriginal |-> d.codigoOriginal,
     fornecedor |-> d.fornecedor,
     endereco |-> d.endereco,
     linha |-> d.linha,
     garantia |-> d.garantia,
     grupo |-> d.grupo,
     infoAdicionais |-> Str(segmentoSeHouver(rotuloEndereco2, d.endereco2)
                            \o segmentoSeHouver(rotuloPendencia, d.pendencia))]

\* a record that leaves out the columns that are set to null
produtoDeSemNulas(idx, cd, d) ==
    SelectSeq(montarProduto(locaisDe(idx, cd, d)), LAMBDA e : e.v # Null)

produtoDe(idx, cd, d) == montarProduto(locaisDe(idx, cd, d))

\* `codigo = codigo ? String(codigo) : ''`
textoOuVazio(codigo) == IF Truthy(codigo) THEN Str(String(codigo)) ELSE Vazia

codigoComoTexto(produtoAtual, mapa) ==
    textoOuVazio(obterValorSeguro(produtoAtual, nomesOu(mapa.codigo, nomesCodigo), Vazia))

\* `partes = codigo.split(' '); codigo = partes[0]; descricao = partes.slice(1).join(' ')`
partirCodigo(partes) == [codigo |-> Str(partes[1]), descricao |-> Str(join(slice1(partes), " "))]

\* part_001: a code with a space in it gives the description when there is none
separarCodigo(codigo, descricao) ==
    IF estaVazio(descricao) /\ ~estaVazio(codigo) /\ includes(codigo.s, <<" ">>)
    THEN partirCodigo(split(codigo.s, " "))
    ELSE [codigo |-> codigo, descricao |-> descricao]

\* code and description of part_001: the description column, else the code split
codigoEDescricaoV1(produtoAtual, mapa) ==
    separarCodigo(codigoComoTexto(produtoAtual, mapa),
                  obterValorSeguro(produtoAtual, nomesOu(mapa.descricao, nomesDescricao), Vazia))

converterProdutoV1(produtoAtual, mapa, idx) ==
    [ok |-> TRUE,
     produto |-> produtoDe(idx, codigoEDescricaoV1(produtoAtual, mapa),
                           camposDiretos(produtoAtual, mapa))]

\* produtoNovo.Código || `Item #${index + 1}`
codigoDoAviso(produtoNovo, idx) ==
    IF Truthy(Campo(produtoNovo, "Código")) THEN Campo(produtoNovo, "Código")
    ELSE Str(<<"I","t","e","m"," ","#">> \o DigitosDe(idx + 1))

\* the bookkeeping of the row loop of part_001 after a conversion
aposConverterV1(mapa, idx, produtoRaw, acc, produtoNovo) ==
    LET descricao == Campo(produtoNovo, "Descrição")
        inferida == /\ Truthy(mapa.codigo)
                    /\ (~Truthy(mapa.descricao) \/ estaVazio(Obter(produtoRaw, mapa.descricao.s)))
                    /\ ~estaVazio(descricao)
    IN [acc EXCEPT !.descricoesInferidas = IF inferida THEN @ + 1 ELSE @,
                   !.avisosDescricaoVazia =
                       IF estaVazio(descricao)
                       THEN Append(@, [indice |-> idx + 1, codigo |-> codigoDoAviso(produtoNovo, idx)])
                       ELSE @,
                   !.produtosNovos = Append(@, produtoNovo),
                   !.sucessos = @ + 1]

\* the try/catch of the row loop of part_001 around the conversion r
tentarV1(mapa, idx, produtoRaw, acc, r) ==
    IF r.ok
    THEN aposConverterV1(mapa, idx, produtoRaw, acc, r.produto)
    ELSE [acc EXCEPT !.erros = Append(@, [produto |-> idx + 1, mensagem |-> r.mensagem]),
                     !.falhas = @ + 1]

\* one pass of the row loop of part_001 on row number index (from 0)
iteracaoV1(mapa, idx, produtoRaw, acc) ==
    tentarV1(mapa, idx, produtoRaw, acc, converterProdutoV1(produtoRaw, mapa, idx))


(***************************************************************************)
(* conversor-final-corrigido-v2.js                                         *)
(***************************************************************************)
\* /[a-zA-Z]/.test(valor)
temLetra(s) == \E i \in 1..Len(s) : EhLetraAscii(s[i])

\* a result of one method of extrairDescricao: found or not
achadoSe(descricao) ==
    IF ~estaVazio(descricao) THEN [achou |-> TRUE, valor |-> descricao] ELSE [achou |-> FALSE]

\* `a || b` over two such results
ouEntao(a, b) == IF a.achou THEN a ELSE b

\* Metodo 1: the description columns, each looked up alone, in list order
RECURSIVE descricaoDeColuna(_, _)
descricaoDeColuna(produtoAtual, colunas) ==
    IF colunas = <<>> THEN [achou |-> FALSE]
    ELSE ouEntao(achadoSe(obterValorSeguro(produtoAtual, <<Head(colunas)>>, Vazia)),
                 descricaoDeColuna(produtoAtual, Tail(colunas)))

\* the columns Metodo 2 skips
colunaExcluida(col) ==
    \E i \in 1..Len(colunasExcluidas) : includes(normalizar(col), colunasExcluidas[i])

\* a scan that takes a value of two characters as well
RECURSIVE descricaoDeQualquerColunaCurta(_, _)
descricaoDeQualquerColunaCurta(produtoAtual, todasColunas) ==
    IF todasColunas = <<>> THEN [achou |-> FALSE]
    ELSE LET col == Head(todasColunas)
             valor == Obter(produtoAtual, col)
         IN IF /\ ~colunaExcluida(col)
               /\ ~estaVazio(valor) /\ valor.t = "string"
               /\ Len(valor.s) >= 2 /\ temLetra(valor.s)
            THEN [achou |-> TRUE, valor |-> valor]
            ELSE descricaoDeQualquerColunaCurta(produtoAtual, Tail(todasColunas))

\* Metodo 2: every column in key order, the first value that looks like a description
RECURSIVE descricaoDeQualquerColuna(_, _)
descricaoDeQualquerColuna(produtoAtual, todasColunas) ==
    IF todasColunas = <<>> THEN [achou |-> FALSE]
    ELSE LET col == Head(todasColunas)
             valor == Obter(produtoAtual, col)
         IN IF /\ ~colunaExcluida(col)
               /\ ~estaVazio(valor) /\ valor.t = "string"
               /\ Len(valor.s) >= 3 /\ temLetra(valor.s)
            THEN [achou |-> TRUE, valor |-> valor]
            ELSE descricaoDeQualquerColuna(produtoAtual, Tail(todasColunas))

\* Metodo 3: the text after the first space of the code
restoDoCodigo(codigo) ==
    IF ~estaVazio(codigo) /\ codigo.t = "string" /\ includes(codigo.s, <<" ">>)
    THEN [achou |-> TRUE, valor |-> Str(join(slice1(split(codigo.s, " ")), " "))]
    ELSE [achou |-> FALSE]

descricaoDoCodigo(produtoAtual) ==
    restoDoCodigo(obterValorSeguro(produtoAtual, nomesCodigo, Vazia))

\* Metodo 4: the candidates, every column this time
possiveisCamposDescricao(produtoAtual) ==
    SelectSeq(produtoAtual,
              LAMBDA e : /\ ~estaVazio(e.v) /\ e.v.t = "string"
                         /\ Len(e.v.s) > 1 /\ temLetra(e.v.s))

\* reduce((max, atual) => atual.valor.length > max.valor.length ? atual : max)
RECURSIVE maisLongo(_, _)
maisLongo(max, resto) ==
    IF resto = <<>> THEN max
    ELSE maisLongo(IF Len(Head(resto).v.s) > Len(max.v.s) THEN Head(resto) ELSE max, Tail(resto))

\* Metodo 4, the end: the longest candidate, or ''
maisLongoDe(possiveisCampos) ==
    IF possiveisCampos # <<>>
    THEN maisLongo(Head(possiveisCampos), Tail(possiveisCampos)).v
    ELSE Vazia

\* the first method that found something, else Metodo 4
primeiroAchado(m1, m2, m3, m4) ==
    IF m1.achou THEN m1.valor
    ELSE IF m2.achou THEN m2.valor
    ELSE IF m3.achou THEN m3.valor
    ELSE m4

extrairDescricao(produtoAtual, mapa, idx) ==
    primeiroAchado(descricaoDeColuna(produtoAtual, colunasDescricao),
                   descricaoDeQualquerColuna(produtoAtual, keys(produtoAtual)),
                   descricaoDoCodigo(produtoAtual),
                   maisLongoDe(possiveisCamposDescricao(produtoAtual)))

\* a converter that keeps the description extrairDescricao gave, blank or not
descricaoSemGenerica(descricao, idx) == descricao

\* `if (estaVazio(descricao)) descricao = `Produto ${index + 1}``
descricaoOuGenerica(descricao, idx) ==
    IF estaVazio(descricao)
    THEN Str(<<"P","r","o","d","u","t","o"," ">> \o DigitosDe(idx + 1))
    ELSE descricao

\* the condition of the console.warn of converterProduto: the placeholder is used
avisoDescricaoPadrao(descricao) == estaVazio(descricao)

\* code and description of v2: the code is kept whole
codigoEDescricaoV2(produtoAtual, mapa, idx) ==
    [codigo |-> codigoComoTexto(produtoAtual, mapa),
     descricao |-> descricaoOuGenerica(extrairDescricao(produtoAtual, mapa, idx), idx)]

\* a v2 converter that, like conversor-simples.js, refuses a row without code
converterProdutoV2Estrito(produtoAtual, mapa, idx) ==
    IF estaVazio(codigoEDescricaoV2(produtoAtual, mapa, idx).codigo)
    THEN [ok |-> FALSE, mensagem |-> "Código é obrigatório"]
    ELSE [ok |-> TRUE,
          produto |-> produtoDe(idx, codigoEDescricaoV2(produtoAtual, mapa, idx),
                                camposDiretos(produtoAtual, mapa))]

\* converterProduto of v2; nothing in it throws on a row of texts, so its
\* catch, which rethrows, is never entered
converterProdutoV2(produtoAtual, mapa, idx) ==
    [ok |-> TRUE,
     produto |-> produtoDe(idx, codigoEDescricaoV2(produtoAtual, mapa, idx),
                           camposDiretos(produtoAtual, mapa))]

\* a loop that puts the new record in front of the others
aposConverterV2NaFrente(idx, acc, produtoNovo) ==
    [acc EXCEPT !.avisosDescricaoVazia =
                    IF estaVazio(Campo(produtoNovo, "Descrição"))
                    THEN Append(@, [indice |-> idx + 1, codigo |-> codigoDoAviso(produtoNovo, idx)])
                    ELSE @,
                !.produtosNovos = <<produtoNovo>> \o @,
                !.sucessos = @ + 1]

\* the bookkeeping of the row loop of v2 after a conversion
aposConverterV2(idx, acc, produtoNovo) ==
    [acc EXCEPT !.avisosDescricaoVazia =
                    IF estaVazio(Campo(produtoNovo, "Descrição"))
                    THEN Append(@, [indice |-> idx + 1, codigo |-> codigoDoAviso(produtoNovo, idx)])
                    ELSE @,
                !.produtosNovos = Append(@, produtoNovo),
                !.sucessos = @ + 1]

\* the try/catch of the row loop of v2 around the conversion r
tentarV2(idx, acc, r) ==
    IF r.ok
    THEN aposConverterV2(idx, acc, r.produto)
    ELSE [acc EXCEPT !.erros = Append(@, [produto |-> idx + 1, mensagem |-> r.mensagem]),
                     !.falhas = @ + 1]

\* one pass of the row loop of v2 on row number index (from 0)
iteracaoV2(mapa, idx, produtoRaw, acc) ==
    tentarV2(idx, acc, converterProdutoV2(produtoRaw, mapa, idx))


(***************************************************************************)
(* Reading the sheet and diagnosing its columns                            *)
(***************************************************************************)
\* an empty cell of the sheet
CelulaVazia == Undefined

\* XLSX.utils.sheet_to_json as the script calls it.  conversor-simples.js and
\* unnamed/part_000 pass no option: raw values, no key for an empty cell.  The other two pass
\* raw: false, defval: '', blankrows: false: formatted text, '' for an empty cell.
\* Rows with no cell at all are skipped in both.
sheet_to_json(sc, folha) ==
    LET naoVazia(linha) == \E i \in 1..Len(linha) : linha[i] # CelulaVazia
        celula(v) == IF sc \in {"simples", "separador"} THEN v
                     ELSE IF v = CelulaVazia THEN Vazia
                     ELSE Str(String(v))
        objeto(linha) ==
            LET todas == [i \in 1..Len(folha.cabecalhos) |->
                             [k |-> folha.cabecalhos[i], v |-> celula(linha[i])]]
            IN SelectSeq(todas, LAMBDA e : e.v # Undefined)
        linhas == SelectSeq(folha.linhas, naoVazia)
    IN [i \in 1..Len(linhas) |-> objeto(linhas[i])]

\* the object diagnosticarColunas returns for no product: {}
mapaVazio ==
    [catalogo |-> Undefined, codigo |-> Undefined, descricao |-> Undefined,
     unidade |-> Undefined, ncm |-> Undefined, precoVarejo |-> Undefined,
     precoAtacado |-> Undefined, precoPromocao |-> Undefined, estoque |-> Undefined,
     precoCompra |-> Undefined, endereco |-> Undefined, endereco2 |-> Undefined,
     fornecedor |-> Undefined, garantia |-> Undefined, pendencia |-> Undefined,
     linha |-> Undefined, grupo |-> Undefined]

\* the candidate names of the mapeamento literal
candidatosDoMapa ==
    [catalogo |-> nomesCatalogo, codigo |-> nomesCodigo, descricao |-> nomesDescricaoMapa,
     unidade |-> nomesUnidade, ncm |-> nomesNcm, precoVarejo |-> nomesPrecoVarejo,
     precoAtacado |-> nomesPrecoAtacado, precoPromocao |-> nomesPrecoPromocao,
     estoque |-> nomesEstoque, precoCompra |-> nomesPrecoCompra, endereco |-> nomesEndereco,
     endereco2 |-> nomesEndereco2, fornecedor |-> nomesFornecedor, garantia |-> nomesGarantia,
     pendencia |-> nomesPendencia, linha |-> nomesLinha, grupo |-> nomesGrupo]

\* the mapeamento literal: every field is encontrarColuna(produtos[0], candidates)
mapeamento(primeiro) ==
    [campo \in DOMAIN candidatosDoMapa |-> encontrarColuna(primeiro, candidatosDoMapa[campo])]

\* diagnosticarColunas of unnamed/part_001
diagnosticarColunasV1(produtos) ==
    IF produtos = <<>> THEN mapaVazio ELSE mapeamento(produtos[1])

\* todasColunas: the keys of all products, in the order they are first seen
RECURSIVE todasAsColunas(_, _)
todasAsColunas(vistas, chaves) ==
    IF chaves = <<>> THEN vistas
    ELSE todasAsColunas(IF \E i \in 1..Len(vistas) : vistas[i] = Head(chaves)
                        THEN vistas ELSE Append(vistas, Head(chaves)),
                        Tail(chaves))

RECURSIVE chavesDeTodos(_)
chavesDeTodos(produtos) ==
    IF produtos = <<>> THEN <<>> ELSE keys(Head(produtos)) \o chavesDeTodos(Tail(produtos))

\* the partial names that make a column look like a description column
nomesQueParecemDescricao ==
    <<<<"d","e","s","c","r">>, <<"d","e","s","c">>, <<"n","o","m","e">>, <<"p","r","o","d","u","t","o">>, <<"d","e","n","o","m","i","n","a","c","a","o">>>>

\* produtos.map(p => p[coluna]).filter(v => !estaVazio(v))
valoresDaColuna(produtos, coluna) ==
    SelectSeq([i \in 1..Len(produtos) |-> Obter(produtos[i], coluna)], LAMBDA v : ~estaVazio(v))

\* exemplos.some(ex => ex && typeof ex === 'string' && ex.length > 3 && /[a-zA-Z]/.test(ex))
\* over exemplos = valores.slice(0, 3)
pareceConteudoDescricao(valores) ==
    \E i \in 1..Len(valores) :
        /\ i <= 3
        /\ Truthy(valores[i]) /\ valores[i].t = "string"
        /\ Len(valores[i].s) > 3 /\ temLetra(valores[i].s)

pareceColunaDescricao(coluna) ==
    \E i \in 1..Len(nomesQueParecemDescricao) :
        includes(normalizar(coluna), nomesQueParecemDescricao[i])

\* one entry of possiveisColunas for a column, or none; the score is kept
\* multiplied by produtos.length so that it stays an integer
pontuar(produtos, coluna, valores, pareceColuna, pareceConteudo) ==
    [entra |-> pareceColuna \/ pareceConteudo,
     coluna |-> coluna,
     scoring |-> IF pareceColuna THEN 10 * Len(produtos)
                 ELSE (IF pareceConteudo THEN 5 * Len(produtos) ELSE 0) + Len(valores) * 10]

candidataADescricao(produtos, coluna, valores) ==
    pontuar(produtos, coluna, valores, pareceColunaDescricao(coluna),
            pareceConteudoDescricao(valores))

colunasCandidatas(produtos, colunas) ==
    SelectSeq([i \in 1..Len(colunas) |->
                  candidataADescricao(produtos, colunas[i], valoresDaColuna(produtos, colunas[i]))],
              LAMBDA c : c.entra)

\* possiveisColunas before the sort
possiveisColunas(produtos) ==
    colunasCandidatas(produtos, todasAsColunas(<<>>, chavesDeTodos(produtos)))

\* possiveisColunas[0] after sort((a, b) => b.scoring - a.scoring), a stable
\* sort: the first candidate with the highest score
RECURSIVE primeiraDeMaiorScore(_, _)
primeiraDeMaiorScore(melhor, resto) ==
    IF resto = <<>> THEN melhor
    ELSE primeiraDeMaiorScore(IF Head(resto).scoring > melhor.scoring THEN Head(resto) ELSE melhor,
                              Tail(resto))

\* `descricao: possiveisColunas[0] ? possiveisColunas[0].coluna : encontrarColuna(...)`
comDescricao(mapa, possiveis) ==
    IF possiveis # <<>>
    THEN [mapa EXCEPT !.descricao = Str(primeiraDeMaiorScore(Head(possiveis), Tail(possiveis)).coluna)]
    ELSE mapa

\* diagnosticarColunas of conversor-final-corrigido-v2.js
diagnosticarColunasV2(produtos) ==
    IF produtos = <<>> THEN mapaVazio
    ELSE comDescricao(mapeamento(produtos[1]), possiveisColunas(produtos))

diagnosticarColunas(sc, produtos) ==
    CASE sc = "v1" -> diagnosticarColunasV1(produtos)
      [] sc = "v2" -> diagnosticarColunasV2(produtos)
      [] OTHER -> mapaVazio

\* converterProduto of script sc on one row
converterProduto(sc, produtoAtual, mapa, idx) ==
    CASE sc = "simples" -> converterProdutoSimples(produtoAtual)
      [] sc = "v1" -> converterProdutoV1(produtoAtual, mapa, idx)
      [] OTHER -> converterProdutoV2(produtoAtual, mapa, idx)

\* the body of the row loop of script sc
iteracao(sc, mapa, idx, produtoRaw, acc) ==
    CASE sc = "simples" -> iteracaoSimples(mapa, idx, produtoRaw, acc)
      [] sc = "v1" -> iteracaoV1(mapa, idx, produtoRaw, acc)
      [] OTHER -> iteracaoV2(mapa, idx, produtoRaw, acc)


(***************************************************************************)
(* unnamed/part_000 (separador-codigo-descricao.js)                        *)
(***************************************************************************)
\* 'Código', 'Codigo', 'código', 'codigo', 'COD', 'CODIGO'
possiveisColunasCodigo ==
    <<<<"C","ó","d","i","g","o">>, <<"C","o","d","i","g","o">>,
      <<"c","ó","d","i","g","o">>, <<"c","o","d","i","g","o">>,
      <<"C","O","D">>, <<"C","O","D","I","G","O">>>>

\* col.toLowerCase()
emMinusculas(col) == [i \in 1..Len(col) |-> toLowerCase(col[i])]

\* colunas.find(col => col.toLowerCase().includes('cod')), then `colunas[0]`
\* when nothing is found
RECURSIVE colunaComCod(_, _)
colunaComCod(colunas, primeira) ==
    IF colunas = <<>> THEN primeira
    ELSE IF includes(emMinusculas(Head(colunas)), <<"c","o","d">>) THEN Head(colunas)
    ELSE colunaComCod(Tail(colunas), primeira)

\* the loop over possiveisColunasCodigo: the first name that colunas.includes
RECURSIVE primeiraColunaCodigo(_, _)
primeiraColunaCodigo(possiveis, colunas) ==
    IF possiveis = <<>> THEN colunaComCod(colunas, colunas[1])
    ELSE IF \E i \in 1..Len(colunas) : colunas[i] = Head(possiveis) THEN Head(possiveis)
    ELSE primeiraColunaCodigo(Tail(possiveis), colunas)

\* obj[nome] = valor: an existing key keeps its place, a new one goes last
Definir(obj, nome, valor) ==
    IF hasOwnProperty(obj, nome)
    THEN [i \in 1..Len(obj) |-> IF obj[i].k = nome THEN [k |-> nome, v |-> valor] ELSE obj[i]]
    ELSE Append(obj, [k |-> nome, v |-> valor])

\* the row with the code cut at its first space and the rest as 'Descrição'
linhaSeparada(produto, coluna, partes) ==
    Definir(Definir(produto, coluna, Str(partes[1])),
            <<"D","e","s","c","r","i","ç","ã","o">>, Str(join(slice1(partes), " ")))

\* the body of the loop of main: the new row and the two counters; conta is
\* [semEspaco, comEspaco]
separar(produto, coluna, codigo, conta) ==
    IF ~Truthy(codigo)
    THEN [produtoNovo |-> produto, semEspaco |-> conta.semEspaco, comEspaco |-> conta.comEspaco]
    ELSE IF includes(String(codigo), <<" ">>)
    THEN [produtoNovo |-> linhaSeparada(produto, coluna, split(String(codigo), " ")),
          semEspaco |-> conta.semEspaco, comEspaco |-> conta.comEspaco + 1]
    ELSE [produtoNovo |-> produto, semEspaco |-> conta.semEspaco + 1, comEspaco |-> conta.comEspaco]


(***************************************************************************)
(* The inputs of a run                                                     *)
(***************************************************************************)
Scripts == {"simples", "v1", "v2"}

\* the most data rows of a sheet
MaxLinhas == 3

\* a sheet with the two columns every script knows: 'Código', 'Descrição'
CabecalhosBase == <<<<"C","ó","d","i","g","o">>, <<"D","e","s","c","r","i","ç","ã","o">>>>

\* its rows: no code and 'cd'; '7 ab' and no description; '7' and 'cd'
LinhasBase ==
    {<<CelulaVazia, Str(<<"c","d">>)>>,
     <<Str(<<"7"," ","a","b">>), CelulaVazia>>,
     <<Str(<<"7">>), Str(<<"c","d">>)>>}

Planilhas ==
    {[cabecalhos |-> CabecalhosBase, linhas |-> l] :
        l \in UNION {[1..n -> LinhasBase] : n \in 0..MaxLinhas}}

\* sheets of one data row, with the header spellings and the cell contents
\* that the column resolution and the description inference tell apart
\* 'Código', 'Codigo', 'CÓDIGO'
CabecalhosDeCodigo ==
    {<<"C","ó","d","i","g","o">>,
     <<"C","o","d","i","g","o">>,
     <<"C","Ó","D","I","G","O">>}

\* 'Descrição', 'descricao', 'Nome', 'Obs'
CabecalhosDeTexto ==
    {<<"D","e","s","c","r","i","ç","ã","o">>,
     <<"d","e","s","c","r","i","c","a","o">>,
     <<"N","o","m","e">>,
     <<"O","b","s">>}

\* 'NCM', ' NCM ', 'Classificação Fiscal', 'classificacao fiscal' and
\* 'Classificação  Fiscal' with two spaces
CabecalhosDeNcm ==
    {<<"N","C","M">>,
     <<" ","N","C","M"," ">>,
     <<"C","l","a","s","s","i","f","i","c","a","ç","ã","o"," ","F","i","s","c","a","l">>,
     <<"c","l","a","s","s","i","f","i","c","a","c","a","o"," ","f","i","s","c","a","l">>,
     <<"C","l","a","s","s","i","f","i","c","a","ç","ã","o"," "," ","F","i","s","c","a","l">>}

\* 'Estoque', 'Saldo Estoque', 'estoque', 'saldo estoque'
CabecalhosDeEstoque ==
    {<<"E","s","t","o","q","u","e">>,
     <<"S","a","l","d","o"," ","E","s","t","o","q","u","e">>,
     <<"e","s","t","o","q","u","e">>,
     <<"s","a","l","d","o"," ","e","s","t","o","q","u","e">>}

\* code cells: none, '7', '7 ab', '7  ab', ' 7 ab', '7 ', 'AB1', the number 0
CelulasDeCodigo ==
    {CelulaVazia, Str(<<"7">>), Str(<<"7"," ","a","b">>), Str(<<"7"," "," ","a","b">>), Str(<<" ","7"," ","a","b">>), Str(<<"7"," ">>), Str(<<"A","B","1">>), Num(0)}

\* text cells: none, 'ab', 'abcd'
CelulasDeTexto == {CelulaVazia, Str(<<"a","b">>), Str(<<"a","b","c","d">>)}

\* code cells of the sheets given to conversor-simples.js: none, '', ' ',
\* the numbers 0 and 7, '7', '7 ab'
CelulasDeCodigoSimples ==
    {CelulaVazia, Vazia, Str(<<" ">>), Num(0), Num(7), Str(<<"7">>), Str(<<"7"," ","a","b">>)}

UmaLinha(cabecalhos, celulas) == [cabecalhos |-> cabecalhos, linhas |-> <<celulas>>]

\* the sheets with the columns h in the cells x, k in the cells y, in both orders
DuasColunas(H, X, K, Y) ==
    {UmaLinha(<<h, k>>, <<x, y>>) : h \in H, k \in K, x \in X, y \in Y}
    \cup {UmaLinha(<<k, h>>, <<y, x>>) : h \in H, k \in K, x \in X, y \in Y}

\* the sheets with two different columns of the same family
MesmaFamilia(H, X, Y) ==
    {UmaLinha(<<h, k>>, <<x, y>>) : h \in H, k \in H, x \in X, y \in Y} \ 
    {UmaLinha(<<h, h>>, <<x, y>>) : h \in H, x \in X, y \in Y}

\* 'Obs', 'Info': headers that name no field and that the scan does not skip
CabecalhosLivres == {<<"O","b","s">>, <<"I","n","f","o">>}

\* their cells: none, 'AB', 'abcd', 'Blue Widget'
CelulasLivres ==
    {CelulaVazia, Str(<<"A","B">>), Str(<<"a","b","c","d">>),
     Str(<<"B","l","u","e"," ","W","i","d","g","e","t">>)}

\* price cells: none, the numbers 5 and 10.5, '12', '10,50', '1.234,56',
\* '-3,5', 'abc', '1,2,3'
CelulasDePreco ==
    {CelulaVazia, Num(5), Decimal(105, 1), Str(<<"1","2">>), Str(<<"1","0",",","5","0">>),
     Str(<<"1",".","2","3","4",",","5","6">>), Str(<<"-","3",",","5">>),
     Str(<<"a","b","c">>), Str(<<"1",",","2",",","3">>)}

\* the sheets with the columns 'Código', 'Preço Varejo' and one row with the
\* code '7' and a price cell
PlanilhasDePreco ==
    {UmaLinha(<<<<"C","ó","d","i","g","o">>, <<"P","r","e","ç","o"," ","V","a","r","e","j","o">>>>,
              <<Str(<<"7">>), x>>) : x \in CelulasDePreco}

\* the sheets with the column 'Código' and two more columns h1, h2, and one
\* row with the code '7' and cells of X
TresColunas(h1, h2, X) ==
    {UmaLinha(<<<<"C","ó","d","i","g","o">>, h1, h2>>, <<Str(<<"7">>), x, y>>) : x \in X, y \in X}

\* the sources of the two composite texts: 'Preço Atacado' and 'Preço Promoção'
\* holding nothing, ' ', '5' or the number 0; 'Endereço 2' and 'Pendência'
\* holding nothing, ' ' or 'ab'
PlanilhasDeTextoComposto ==
    TresColunas(<<"P","r","e","ç","o"," ","A","t","a","c","a","d","o">>,
                <<"P","r","e","ç","o"," ","P","r","o","m","o","ç","ã","o">>,
                {CelulaVazia, Str(<<" ">>), Str(<<"5">>), Num(0)})
    \cup TresColunas(<<"E","n","d","e","r","e","ç","o"," ","2">>,
                     <<"P","e","n","d","ê","n","c","i","a">>,
                     {CelulaVazia, Str(<<" ">>), Str(<<"a","b">>)})

\* the sheet with the columns 'Código', 'Preço Varejo' and the one row
\* '123 Parafuso Phillips', '10,50'
PlanilhaDoExemplo ==
    UmaLinha(<<<<"C","ó","d","i","g","o">>, <<"P","r","e","ç","o"," ","V","a","r","e","j","o">>>>,
             <<Str(<<"1","2","3"," ","P","a","r","a","f","u","s","o"," ","P","h","i","l","l","i","p","s">>),
               Str(<<"1","0",",","5","0">>)>>)

\* the sources of two direct texts: 'Unidade' and 'Fornecedor' holding
\* nothing, ' ', 'UN' or ' UN '
PlanilhasDeTextoDireto ==
    TresColunas(<<"U","n","i","d","a","d","e">>, <<"F","o","r","n","e","c","e","d","o","r">>,
                {CelulaVazia, Str(<<" ">>), Str(<<"U","N">>), Str(<<" ","U","N"," ">>)})

\* the sheets with the columns 'Código' and 'Descr', a name the converters
\* look up and the diagnosis of part_001 does not
PlanilhasDeDescr ==
    {UmaLinha(<<<<"C","ó","d","i","g","o">>, <<"D","e","s","c","r">>>>, <<x, y>>) :
        x \in {Str(<<"7">>), Str(<<"7"," ","a","b">>)}, y \in {CelulaVazia, Str(<<"c","d">>)}}

\* the sources of the stock and of the two cost columns: 'Saldo Estoque' and
\* 'Preço Compra' holding nothing, ' ', the number 5, '10,50' or 'abc'
PlanilhasDeEstoqueECompra ==
    TresColunas(<<"S","a","l","d","o"," ","E","s","t","o","q","u","e">>,
                <<"P","r","e","ç","o"," ","C","o","m","p","r","a">>,
                {CelulaVazia, Str(<<" ">>), Num(5), Str(<<"1","0",",","5","0">>),
                 Str(<<"a","b","c">>)})

PlanilhasVariadas ==
    {PlanilhaDoExemplo} \cup PlanilhasDePreco \cup PlanilhasDeTextoComposto \cup
    PlanilhasDeTextoDireto \cup PlanilhasDeDescr \cup PlanilhasDeEstoqueECompra \cup
    {UmaLinha(<<h>>, <<x>>) : h \in CabecalhosDeCodigo, x \in CelulasDeCodigo}
    \cup DuasColunas(CabecalhosDeCodigo, CelulasDeCodigo, CabecalhosDeTexto, CelulasDeTexto)
    \cup MesmaFamilia(CabecalhosDeCodigo, {CelulaVazia, Str(<<"7">>)}, {CelulaVazia, Str(<<"7"," ","a","b">>)})
    \cup MesmaFamilia(CabecalhosDeTexto, CelulasDeTexto, CelulasDeTexto)
    \cup MesmaFamilia(CabecalhosDeNcm, {CelulaVazia, Str(<<"a","b">>)}, {CelulaVazia, Str(<<"c","d">>)})
    \cup MesmaFamilia(CabecalhosDeEstoque, {CelulaVazia, Str(<<"5">>)}, {CelulaVazia, Str(<<"6">>)})
    \cup MesmaFamilia(CabecalhosLivres, CelulasLivres, CelulasLivres)

PlanilhasSimples ==
    PlanilhasDePreco \cup PlanilhasDeTextoComposto \cup PlanilhasDeEstoqueECompra \cup
    {UmaLinha(<<h>>, <<x>>) : h \in CabecalhosDeCodigo, x \in CelulasDeCodigoSimples}
    \cup DuasColunas(CabecalhosDeCodigo, CelulasDeCodigoSimples,
                     {<<"D","e","s","c","r","i","ç","ã","o">>}, {CelulaVazia, Str(<<"a","b">>)})

\* what the run holds when the input file does not exist
SemPlanilha == [cabecalhos |-> <<>>, linhas |-> <<>>]

(***************************************************************************)
(* The command line                                                        *)
(***************************************************************************)
\* args[i] || padrao, i counted from 0: a missing or empty argument is falsy
argumentoOu(argumentos, i, padrao) ==
    IF i + 1 <= Len(argumentos) /\ argumentos[i + 1] # <<>> THEN argumentos[i + 1] ELSE padrao

dados_atuais == <<"d","a","d","o","s","_","a","t","u","a","i","s",".","x","l","s","x">>
dados_convertidos ==
    <<"d","a","d","o","s","_","c","o","n","v","e","r","t","i","d","o","s",".","x","l","s","x">>
dados_separados ==
    <<"d","a","d","o","s","_","s","e","p","a","r","a","d","o","s",".","x","l","s","x">>

\* const arquivoEntrada = args[0] || 'dados_atuais.xlsx'
arquivoEntradaDe(argumentos) == argumentoOu(argumentos, 0, dados_atuais)

\* const arquivoSaida = args[1] || 'dados_convertidos.xlsx' ('dados_separados.xlsx'
\* in unnamed/part_000)
arquivoSaidaDe(sc, argumentos) ==
    argumentoOu(argumentos, 1, IF sc = "separador" THEN dados_separados ELSE dados_convertidos)

opcaoDebug == <<"-","-","d","e","b","u","g">>
opcaoD == <<"-","d">>

\* const modoDebug = args.includes('--debug') || args.includes('-d')
modoDebugDe(argumentos) ==
    \E i \in 1..Len(argumentos) : argumentos[i] = opcaoDebug \/ argumentos[i] = opcaoD

\* args[0] of the runs: 'e.xlsx'
NomeDeEntrada == <<"e",".","x","l","s","x">>

\* args[1] of the runs: 'a.xlsx', 'a.XLS', 'a.ods'
NomesDeSaida == {<<"a",".","x","l","s","x">>, <<"a",".","X","L","S">>, <<"a",".","o","d","s">>}

\* <program> e.xlsx <output file>
ComandosComSaida == {<<NomeDeEntrada, n>> : n \in NomesDeSaida}

\* <program> e.xlsx a.xlsx
ComandoUsual == {<<NomeDeEntrada, <<"a",".","x","l","s","x">>>>}

\* <program> [inputFile] [outputFile] [--debug|-d]
LinhasDeComando ==
    {posicionais \o opcao :
        posicionais \in {<<>>, <<NomeDeEntrada>>, <<NomeDeEntrada, <<"a",".","x","l","s","x">>>>},
        opcao \in {<<>>, <<opcaoDebug>>, <<opcaoD>>}}

(***************************************************************************)
(* iniciar()                                                               *)
(***************************************************************************)
\* a run of one script on one file: folhasSimples are the sheets given to
\* conversor-simples.js, folhas those given to the other two
InitCom(folhasSimples, folhas, comandos) ==
    /\ script \in Scripts
    /\ args \in comandos
    /\ entradaExiste \in BOOLEAN
    /\ planilha \in (IF ~entradaExiste THEN {SemPlanilha}
                     ELSE IF script = "simples" THEN folhasSimples ELSE folhas)
    /\ produtosAtuaisRaw = <<>>
    /\ mapaColunasEncontradas = mapaVazio
    /\ index = 0
    /\ produtosNovos = <<>>
    /\ sucessos = 0
    /\ falhas = 0
    /\ erros = <<>>
    /\ avisosDescricaoVazia = <<>>
    /\ descricoesInferidas = 0
    /\ saida = "nenhuma"
    /\ colunaCodigo = Null
    /\ produtosSeparados = <<>>
    /\ codigosSemEspaco = 0
    /\ codigosComEspaco = 0
    /\ escritas = <<>>
    /\ erroCapturado = "nenhum"
    /\ pc = "inicio"

Init == InitCom(Planilhas, Planilhas, ComandosComSaida)

\* the runs on the sheets of one row
InitLinha == InitCom(PlanilhasSimples, PlanilhasVariadas, ComandoUsual)

\* the runs with and without the debug option
InitComando == InitCom(Planilhas, Planilhas, LinhasDeComando)

\* a start that reads the workbook without the existence check
LerPlanilhaSemVerificar ==
    /\ pc = "inicio"
    /\ produtosAtuaisRaw' = sheet_to_json(script, planilha)
    /\ mapaColunasEncontradas' = diagnosticarColunas(script, produtosAtuaisRaw')
    /\ pc' = "laco"
    /\ UNCHANGED <<script, args, entradaExiste, planilha, index, produtosNovos, sucessos, falhas,
                   erros, avisosDescricaoVazia, descricoesInferidas, saida>>
    /\ UNCHANGED <<varsSeparador, varsEscrita>>

\* from the existence check to the column diagnosis
LerPlanilha ==
    /\ pc = "inicio"
    /\ IF ~entradaExiste
       THEN /\ pc' = "fim"
            /\ UNCHANGED <<produtosAtuaisRaw, mapaColunasEncontradas>>
       ELSE /\ produtosAtuaisRaw' = sheet_to_json(script, planilha)
            /\ mapaColunasEncontradas' = diagnosticarColunas(script, produtosAtuaisRaw')
            /\ pc' = "laco"
    /\ UNCHANGED <<script, args, entradaExiste, planilha, index, produtosNovos, sucessos, falhas,
                   erros, avisosDescricaoVazia, descricoesInferidas, saida>>
    /\ UNCHANGED <<varsSeparador, varsEscrita>>

\* the loop variables after one pass
aposIteracao(acc) ==
    /\ produtosNovos' = acc.produtosNovos
    /\ sucessos' = acc.sucessos
    /\ falhas' = acc.falhas
    /\ erros' = acc.erros
    /\ avisosDescricaoVazia' = acc.avisosDescricaoVazia
    /\ descricoesInferidas' = acc.descricoesInferidas

\* a pass of the row loop that diagnoses the columns again, on the rows not
\* yet gone through
ProcessarProdutoRefazendoMapa ==
    /\ pc = "laco"
    /\ index < Len(produtosAtuaisRaw)
    /\ aposIteracao(iteracao(script, mapaColunasEncontradas, index, produtosAtuaisRaw[index + 1],
                             [produtosNovos |-> produtosNovos, sucessos |-> sucessos,
                              falhas |-> falhas, erros |-> erros,
                              avisosDescricaoVazia |-> avisosDescricaoVazia,
                              descricoesInferidas |-> descricoesInferidas]))
    /\ index' = index + 1
    /\ mapaColunasEncontradas' =
          diagnosticarColunas(script, SubSeq(produtosAtuaisRaw, index + 2, Len(produtosAtuaisRaw)))
    /\ UNCHANGED <<script, args, entradaExiste, planilha, produtosAtuaisRaw, saida, pc>>
    /\ UNCHANGED <<varsSeparador, varsEscrita>>

\* one pass of `for (const [index, produtoRaw] of produtosAtuaisRaw.entries())`
ProcessarProduto ==
    /\ pc = "laco"
    /\ index < Len(produtosAtuaisRaw)
    /\ aposIteracao(iteracao(script, mapaColunasEncontradas, index, produtosAtuaisRaw[index + 1],
                             [produtosNovos |-> produtosNovos, sucessos |-> sucessos,
                              falhas |-> falhas, erros |-> erros,
                              avisosDescricaoVazia |-> avisosDescricaoVazia,
                              descricoesInferidas |-> descricoesInferidas]))
    /\ index' = index + 1
    /\ UNCHANGED <<script, args, entradaExiste, planilha, produtosAtuaisRaw,
                   mapaColunasEncontradas, saida, pc>>
    /\ UNCHANGED <<varsSeparador, varsEscrita>>

\* s ends with fim, letter case aside
terminaCom(s, fim) ==
    /\ Len(s) >= Len(fim)
    /\ [i \in 1..Len(fim) |-> toLowerCase(s[Len(s) - Len(fim) + i])] = fim

\* arquivoSaida.replace(/\.xlsx?$/i, '.csv')
csvSaida(arquivoSaida) ==
    IF terminaCom(arquivoSaida, <<".","x","l","s","x">>)
    THEN SubSeq(arquivoSaida, 1, Len(arquivoSaida) - 5) \o <<".","c","s","v">>
    ELSE IF terminaCom(arquivoSaida, <<".","x","l","s">>)
    THEN SubSeq(arquivoSaida, 1, Len(arquivoSaida) - 4) \o <<".","c","s","v">>
    ELSE arquivoSaida

\* one attempt to write a file
escrita(arquivo, formato, falhou) == [arquivo |-> arquivo, formato |-> formato, falhou |-> falhou]

\* the writes a converter attempts once the loop is over: none when part_001
\* or v2 have no record; XLSX.writeFile; in part_001, after its failure,
\* fs.writeFileSync of the CSV
tentativasDeEscrita(sc, novos, arquivoSaida, xlsxFalha, csvFalha) ==
    IF sc # "simples" /\ novos = <<>> THEN <<>>
    ELSE IF sc = "v1" /\ xlsxFalha
    THEN <<escrita(arquivoSaida, "xlsx", TRUE), escrita(csvSaida(arquivoSaida), "csv", csvFalha)>>
    ELSE <<escrita(arquivoSaida, "xlsx", xlsxFalha)>>

\* the error that reaches the catch of iniciar: the one of XLSX.writeFile, thrown
\* again by part_001 when the CSV could not be written either
erroDaEscrita(tentativas) ==
    IF tentativas # <<>> /\ tentativas[Len(tentativas)].falhou THEN "escrita" ELSE "nenhum"

\* what is written once the loop is over; the two writes may fail
arquivoEscrito(sc, novos, xlsxFalha, csvFalha) ==
    IF sc # "simples" /\ novos = <<>> THEN "nenhuma"
    ELSE IF ~xlsxFalha THEN "xlsx"
    ELSE IF sc = "v1" /\ ~csvFalha THEN "csv"
    ELSE "nenhuma"

\* the report and the save, after the last row
Salvar ==
    /\ pc = "laco"
    /\ index = Len(produtosAtuaisRaw)
    /\ \E xlsxFalha \in BOOLEAN, csvFalha \in BOOLEAN :
          /\ saida' = arquivoEscrito(script, produtosNovos, xlsxFalha, csvFalha)
          /\ escritas' = tentativasDeEscrita(script, produtosNovos,
                                             arquivoSaidaDe(script, args), xlsxFalha, csvFalha)
          /\ erroCapturado' = erroDaEscrita(escritas')
    /\ pc' = "fim"
    /\ UNCHANGED <<script, args, entradaExiste, planilha, produtosAtuaisRaw, mapaColunasEncontradas,
                   index, produtosNovos, sucessos, falhas, erros, avisosDescricaoVazia,
                   descricoesInferidas>>
    /\ UNCHANGED varsSeparador

Next == LerPlanilha \/ ProcessarProduto \/ Salvar

Spec == Init /\ [][Next]_vars

SpecLinha == InitLinha /\ [][Next]_vars

SpecComando == InitComando /\ [][Next]_vars

(***************************************************************************)
(* main() of unnamed/part_000                                              *)
(***************************************************************************)
\* a run of the separator on one file
InitSeparador(folhas, comandos) ==
    /\ script = "separador"
    /\ args \in comandos
    /\ entradaExiste \in BOOLEAN
    /\ planilha \in (IF ~entradaExiste THEN {SemPlanilha} ELSE folhas)
    /\ produtosAtuaisRaw = <<>>
    /\ mapaColunasEncontradas = mapaVazio
    /\ index = 0
    /\ produtosNovos = <<>>
    /\ sucessos = 0
    /\ falhas = 0
    /\ erros = <<>>
    /\ avisosDescricaoVazia = <<>>
    /\ descricoesInferidas = 0
    /\ saida = "nenhuma"
    /\ colunaCodigo = Null
    /\ produtosSeparados = <<>>
    /\ codigosSemEspaco = 0
    /\ codigosComEspaco = 0
    /\ escritas = <<>>
    /\ erroCapturado = "nenhum"
    /\ pc = "inicio"

\* from the existence check to the choice of the code column; with no row,
\* Object.keys(produtos[0]) throws and the catch of main ends the run
LerSeparador ==
    /\ script = "separador"
    /\ pc = "inicio"
    /\ IF ~entradaExiste
       THEN /\ pc' = "fim"
            /\ UNCHANGED <<produtosAtuaisRaw, colunaCodigo, erroCapturado>>
       ELSE /\ produtosAtuaisRaw' = sheet_to_json(script, planilha)
            /\ IF produtosAtuaisRaw' = <<>>
               THEN /\ pc' = "fim"
                    /\ erroCapturado' = "TypeError"
                    /\ UNCHANGED colunaCodigo
               ELSE /\ colunaCodigo' = Str(primeiraColunaCodigo(possiveisColunasCodigo,
                                                                keys(produtosAtuaisRaw'[1])))
                    /\ pc' = "laco"
                    /\ UNCHANGED erroCapturado
    /\ UNCHANGED <<script, args, entradaExiste, planilha, mapaColunasEncontradas, index, produtosNovos,
                   sucessos, falhas, erros, avisosDescricaoVazia, descricoesInferidas, saida,
                   produtosSeparados, codigosSemEspaco, codigosComEspaco, escritas>>

\* the loop variables of main after one pass
aposSeparar(r) ==
    /\ produtosSeparados' = Append(produtosSeparados, r.produtoNovo)
    /\ codigosSemEspaco' = r.semEspaco
    /\ codigosComEspaco' = r.comEspaco

\* one pass of `for (let i = 0; i < produtos.length; i++)`
SepararProduto ==
    /\ script = "separador"
    /\ pc = "laco"
    /\ index < Len(produtosAtuaisRaw)
    /\ aposSeparar(separar(produtosAtuaisRaw[index + 1], colunaCodigo.s,
                           Obter(produtosAtuaisRaw[index + 1], colunaCodigo.s),
                           [semEspaco |-> codigosSemEspaco, comEspaco |-> codigosComEspaco]))
    /\ index' = index + 1
    /\ UNCHANGED <<script, args, entradaExiste, planilha, produtosAtuaisRaw, mapaColunasEncontradas,
                   produtosNovos, sucessos, falhas, erros, avisosDescricaoVazia,
                   descricoesInferidas, saida, colunaCodigo, pc>>
    /\ UNCHANGED varsEscrita

\* XLSX.writeFile of the separated rows; a failure goes to the catch of main
SalvarSeparador ==
    /\ script = "separador"
    /\ pc = "laco"
    /\ index = Len(produtosAtuaisRaw)
    /\ \E escritaFalha \in BOOLEAN :
          /\ saida' = IF escritaFalha THEN "nenhuma" ELSE "xlsx"
          /\ escritas' = <<escrita(arquivoSaidaDe(script, args), "xlsx", escritaFalha)>>
          /\ erroCapturado' = IF escritaFalha THEN "escrita" ELSE "nenhum"
    /\ pc' = "fim"
    /\ UNCHANGED <<script, args, entradaExiste, planilha, produtosAtuaisRaw, mapaColunasEncontradas,
                   index, produtosNovos, sucessos, falhas, erros, avisosDescricaoVazia,
                   descricoesInferidas, colunaCodigo, produtosSeparados, codigosSemEspaco,
                   codigosComEspaco>>

\* the sheets given to the separator alone: two columns, the code under
\* 'Código', under 'Cod Item' or under no name the script knows, and up to two
\* rows with the code cells none, '7', '7 ab', '7 ab cd', the numbers 0 and 7,
\* and the other cells none, 'cd', 'c d', 'b c d'
CabecalhosDoSeparador ==
    {<<<<"C","ó","d","i","g","o">>, <<"D","e","s","c","r","i","ç","ã","o">>>>,
     <<<<"C","ó","d","i","g","o">>, <<"O","b","s">>>>,
     <<<<"C","o","d"," ","I","t","e","m">>, <<"O","b","s">>>>,
     <<<<"R","e","f">>, <<"D","e","s","c","r","i","ç","ã","o">>>>}

LinhasDoSeparador ==
    {<<x, y>> :
        x \in {CelulaVazia, Str(<<"7">>), Str(<<"7"," ","a","b">>),
               Str(<<"7"," ","a","b"," ","c","d">>), Num(0), Num(7)},
        y \in {CelulaVazia, Str(<<"c","d">>), Str(<<"c"," ","d">>),
               Str(<<"b"," ","c"," ","d">>)}}

MaxLinhasDoSeparador == 2

PlanilhasDoSeparador ==
    {[cabecalhos |-> h, linhas |-> l] :
        h \in CabecalhosDoSeparador,
        l \in UNION {[1..n -> LinhasDoSeparador] : n \in 0..MaxLinhasDoSeparador}}

InitSoSeparador == InitSeparador(PlanilhasDoSeparador, ComandoUsual)

NextSeparador == LerSeparador \/ SepararProduto \/ SalvarSeparador

SpecSeparador == InitSoSeparador /\ [][NextSeparador]_vars

\* the runs of the four scripts
InitScripts ==
    InitCom(Planilhas, Planilhas, ComandosComSaida) \/ InitSeparador(Planilhas, ComandosComSaida)

NextScripts ==
    \/ script \in Scripts /\ LerPlanilha
    \/ script \in Scripts /\ ProcessarProduto
    \/ script \in Scripts /\ Salvar
    \/ LerSeparador
    \/ SepararProduto
    \/ SalvarSeparador

SpecScripts == InitScripts /\ [][NextScripts]_vars


(***************************************************************************)
(* The row loop: counters, identifiers, order, failures                    *)
(***************************************************************************)
\* the 1-based positions of the rows 1..n whose conversion fails
posicoesQueFalham(n) ==
    {i \in 1..n : ~converterProduto(script, produtosAtuaisRaw[i], mapaColunasEncontradas, i - 1).ok}

\* the elements of a set of positions in increasing order
RECURSIVE emOrdem(_)
emOrdem(posicoes) ==
    IF posicoes = {} THEN <<>>
    ELSE LET menor == CHOOSE i \in posicoes : \A j \in posicoes : i <= j
         IN <<menor>> \o emOrdem(posicoes \ {menor})

\* the positions named by the entries of erros
posicoesEmErros == {erros[i].produto : i \in 1..Len(erros)}

\* C1: after the loop has processed k rows (k = index), sucessos + falhas = k
\* and produtosNovos holds sucessos records; erros holds falhas entries; once
\* the run is over, the records written plus the rows that failed are the
\* rows read.
ContagemDoLaco ==
    /\ sucessos + falhas = index
    /\ Len(produtosNovos) = sucessos
    /\ Len(erros) = falhas
    /\ index <= Len(produtosAtuaisRaw)
    /\ pc = "fim" => Len(produtosNovos) + Len(erros) = Len(produtosAtuaisRaw)

\* a run of three rows that ended with both converted and failed rows
ContagemDoLacoMista ==
    /\ pc = "fim"
    /\ Len(produtosAtuaisRaw) = 3
    /\ falhas >= 1
    /\ sucessos >= 1

\* C2: the ID of every record is the 1-based position of its row among the
\* rows read: the j-th record carries the j-th position that is not in erros.
\* It is the record's own position j in the output exactly when no earlier
\* row failed.
IdEhPosicaoDeEntrada ==
    \A j \in 1..Len(produtosNovos) :
        /\ Campo(produtosNovos[j], "ID") = Num(emOrdem((1..index) \ posicoesEmErros)[j])
        /\ (Campo(produtosNovos[j], "ID") = Num(j))
              <=> (\A i \in posicoesEmErros : i > Campo(produtosNovos[j], "ID").num)

\* the first row failed and the second was converted: its record is the
\* first of the output and its ID is 2
IdDepoisDeFalha ==
    /\ Len(erros) >= 1
    /\ erros[1].produto = 1
    /\ Len(produtosNovos) >= 1
    /\ Campo(produtosNovos[1], "ID") = Num(2)

\* the record the loop of script sc pushes for a converted row
registroDe(sc, r, idx) == IF sc = "simples" THEN definirID(r.produto, idx + 1) ELSE r.produto

\* what the loop pushes for the row at 1-based position i, once converted
registroNaPosicao(i) ==
    registroDe(script,
               converterProduto(script, produtosAtuaisRaw[i], mapaColunasEncontradas, i - 1),
               i - 1)

registrosDe(posicoes) == [j \in 1..Len(posicoes) |-> registroNaPosicao(posicoes[j])]

\* C3: the output is the in-order list of the conversions of the rows
\* processed so far that succeeded: one record for each such row, none for a
\* row that failed, in the order of the rows.
SaidaEmOrdemDeEntrada ==
    produtosNovos = registrosDe(emOrdem((1..index) \ posicoesQueFalham(index)))

\* three rows with different contents were all converted
SaidaDeTresLinhas ==
    /\ pc = "fim"
    /\ Len(produtosNovos) = 3
    /\ Campo(produtosNovos[1], "Código") # Campo(produtosNovos[2], "Código")
    /\ Campo(produtosNovos[2], "Código") # Campo(produtosNovos[3], "Código")
    /\ Campo(produtosNovos[1], "Código") # Campo(produtosNovos[3], "Código")

\* C4: a pass of the loop on a row whose conversion throws leaves the records
\* of the other rows as they are, appends one entry to erros for that row,
\* adds one to falhas and goes on to the next row of the same loop.
FalhaIsolada ==
    [][(/\ pc = "laco"
        /\ index < Len(produtosAtuaisRaw)
        /\ ~converterProduto(script, produtosAtuaisRaw[index + 1],
                             mapaColunasEncontradas, index).ok)
       => /\ produtosNovos' = produtosNovos
          /\ sucessos' = sucessos
          /\ Len(erros') = Len(erros) + 1
          /\ SubSeq(erros', 1, Len(erros)) = erros
          /\ erros'[Len(erros')].produto = index + 1
          /\ falhas' = falhas + 1
          /\ index' = index + 1
          /\ pc' = "laco"
          /\ produtosAtuaisRaw' = produtosAtuaisRaw]_vars

\* a row failed between two rows that were converted
FalhaEntreSucessos ==
    /\ Len(erros) = 1
    /\ erros[1].produto = 2
    /\ Len(produtosNovos) = 2
    /\ Campo(produtosNovos[2], "ID") = Num(3)


(***************************************************************************)
(* One row: the required code, the shape of the record                     *)
(***************************************************************************)
\* what conversor-simples.js finds under 'Código' in a row
codigoDaLinha(produtoRaw) == Obter(produtoRaw, chavesSimples.codigo)

\* C5: in conversor-simples.js a row whose 'Código' is missing, null or ''
\* fails with the required-field error: no record, one failure; a row with
\* any other 'Código' does not fail for that reason.
CodigoObrigatorio ==
    (script = "simples" /\ index = 1) =>
        IF codigoDaLinha(produtosAtuaisRaw[1]) \in {Undefined, Null, Vazia}
        THEN /\ produtosNovos = <<>>
             /\ falhas = 1
             /\ Len(erros) = 1
             /\ erros[1].mensagem.causa = "Campo Código é obrigatório"
        ELSE \A i \in 1..Len(erros) : erros[i].mensagem.causa # "Campo Código é obrigatório"

\* the ordered columns of the output format
ColunasDoFormato ==
    <<"ID", "Código", "Descrição", "Unidade", "NCM", "Origem", "Preço", "Valor IPI fixo",
      "Observações", "Situação", "Estoque", "Preço de custo", "Cód no fornecedor",
      "Fornecedor", "Localização", "Estoque maximo", "Estoque minimo", "Peso líquido (Kg)",
      "Peso bruto (Kg)", "GTIN/EAN", "GTIN/EAN da embalagem", "Largura do Produto",
      "Altura do Produto", "Profundidade do produto", "Data Validade",
      "Descrição do Produto no Fornecedor", "Descrição Complementar", "Itens p/ caixa",
      "Produto Variação", "Tipo Produção", "Classe de enquadramento do IPI",
      "Código da lista de serviços", "Tipo do item", "Grupo de Tags/Tags", "Tributos",
      "Código Pai", "Código Integração", "Grupo de produtos", "Marca", "CEST", "Volumes",
      "Descrição Curta", "Cross-Docking", "URL Imagens Externas", "Link Externo",
      "Meses Garantia no Fornecedor", "Clonar dados do pai", "Condição do produto",
      "Frete Grátis", "Número FCI", "Vídeo", "Departamento", "Unidade de medida",
      "Preço de compra", "Valor base ICMS ST para retenção", "Valor ICMS ST para retenção",
      "Valor ICMS próprio do substituto", "Categoria do produto", "Informações Adicionais">>

\* the columns of the format that the converters fill from the input row
ColunasDerivadas ==
    {"ID", "Código", "Descrição", "Unidade", "NCM", "Preço", "Observações", "Estoque",
     "Preço de custo", "Cód no fornecedor", "Fornecedor", "Localização", "Grupo de produtos",
     "Meses Garantia no Fornecedor", "Departamento", "Preço de compra",
     "Informações Adicionais"}

\* the column names of a record, in order
colunasDe(produto) == [i \in 1..Len(produto) |-> produto[i].k]

\* C6: every record has exactly the columns of the output format, in that
\* order, whatever its row held, and each column that is not filled from the
\* input is '' or null.
FormatoFixo ==
    \A j \in 1..Len(produtosNovos) :
        /\ colunasDe(produtosNovos[j]) = ColunasDoFormato
        /\ \A i \in 1..Len(produtosNovos[j]) :
              produtosNovos[j][i].k \notin ColunasDerivadas
                  => produtosNovos[j][i].v \in {Vazia, Null}

\* a record of a lenient converter with a filled and an empty derived column
RegistroComVazias ==
    /\ script = "v1"
    /\ Len(produtosNovos) = 1
    /\ Campo(produtosNovos[1], "NCM") # Vazia
    /\ Campo(produtosNovos[1], "Código") = Vazia


(***************************************************************************)
(* One row: which header supplies a field                                  *)
(***************************************************************************)
\* nome is one of the headers
ehCabecalho(chaves, nome) == \E i \in 1..Len(chaves) : chaves[i] = nome

\* the header equals a candidate once both are normalized
combinaNormalizada(chave, candidatos) ==
    \E i \in 1..Len(candidatos) : normalizar(chave) = normalizar(candidatos[i])

\* the header matches a candidate, exactly or normalized
combina(chave, candidatos) ==
    ehCabecalho(candidatos, chave) \/ combinaNormalizada(chave, candidatos)

\* the first candidate that is a header; failing that the first header that
\* matches a candidate once normalized; failing that null
colunaPrevista(chaves, candidatos) ==
    IF \E i \in 1..Len(candidatos) : ehCabecalho(chaves, candidatos[i])
    THEN Str(candidatos[CHOOSE i \in 1..Len(candidatos) :
                           /\ ehCabecalho(chaves, candidatos[i])
                           /\ \A j \in 1..(i - 1) : ~ehCabecalho(chaves, candidatos[j])])
    ELSE IF \E i \in 1..Len(chaves) : combinaNormalizada(chaves[i], candidatos)
    THEN Str(chaves[CHOOSE i \in 1..Len(chaves) :
                       /\ combinaNormalizada(chaves[i], candidatos)
                       /\ \A j \in 1..(i - 1) : ~combinaNormalizada(chaves[j], candidatos)])
    ELSE Null

\* the output column of each field that is copied as it is found
colunaDeSaida ==
    [unidade |-> "Unidade", ncm |-> "NCM", codigoOriginal |-> "Cód no fornecedor",
     fornecedor |-> "Fornecedor", endereco |-> "Localização", linha |-> "Grupo de produtos",
     garantia |-> "Meses Garantia no Fornecedor", grupo |-> "Departamento"]

\* the value of a row under a column, '' when there is no column or nothing in it
valorSob(produtoRaw, coluna) ==
    IF coluna = Null \/ estaVazio(Obter(produtoRaw, coluna.s)) THEN Vazia
    ELSE Obter(produtoRaw, coluna.s)

\* C7 as stated: in part_001 and v2, whenever a row has something under a
\* header that matches a candidate name of a field, exactly or normalized,
\* the field takes that value.
CabecalhoPreenchidoVincula ==
    (script \in {"v1", "v2"} /\ index = 1 /\ Len(produtosNovos) = 1) =>
        \A campo \in DOMAIN colunaDeSaida :
            \A i \in 1..Len(produtosAtuaisRaw[1]) :
                (/\ combina(produtosAtuaisRaw[1][i].k, candidatosDiretos[campo])
                 /\ ~estaVazio(produtosAtuaisRaw[1][i].v))
                => Campo(produtosNovos[1], colunaDeSaida[campo]) = produtosAtuaisRaw[1][i].v

\* C7, amended: the field takes the value under the one header the
\* resolution picks for it (the first candidate that is a header, else the
\* first header matching once normalized), '' when that cell is blank or no
\* header matches; what other matching headers hold is not used.
CabecalhoEscolhidoVincula ==
    (script \in {"v1", "v2"} /\ index = 1 /\ Len(produtosNovos) = 1) =>
        \A campo \in DOMAIN colunaDeSaida :
            Campo(produtosNovos[1], colunaDeSaida[campo])
                = valorSob(produtosAtuaisRaw[1],
                           colunaPrevista(keys(produtosAtuaisRaw[1]), candidatosDiretos[campo]))

\* the row has nothing under 'NCM' and 'cd' under 'Classificação Fiscal':
\* the record has no NCM
NcmPreenchidoIgnorado ==
    /\ script = "v1"
    /\ Len(produtosNovos) = 1
    /\ keys(produtosAtuaisRaw[1]) = <<<<"N","C","M">>, <<"C","l","a","s","s","i","f","i","c","a","ç","ã","o"," ","F","i","s","c","a","l">>>>
    /\ Obter(produtosAtuaisRaw[1], <<"C","l","a","s","s","i","f","i","c","a","ç","ã","o"," ","F","i","s","c","a","l">>) = Str(<<"c","d">>)
    /\ Campo(produtosNovos[1], "NCM") = Vazia

\* C8: encontrarColuna gives the first candidate, in candidate order, that is
\* a header; else the first header, in header order, equal to a candidate once
\* both are normalized; else null.  A header that has two spaces where the
\* candidates have one is never the result.
ColunaEncontrada ==
    (script \in {"v1", "v2"} /\ produtosAtuaisRaw # <<>>) =>
        \A campo \in DOMAIN candidatosDoMapa :
            \/ script = "v2" /\ campo = "descricao"
            \/ /\ mapaColunasEncontradas[campo]
                    = colunaPrevista(keys(produtosAtuaisRaw[1]), candidatosDoMapa[campo])
               /\ mapaColunasEncontradas[campo] # Null
                    => ~includes(mapaColunasEncontradas[campo].s, <<" ", " ">>)

\* 'estoque' comes before 'saldo estoque' in the sheet and neither is spelled
\* as a candidate: the first header is taken, though 'Saldo Estoque' is the
\* first candidate
EstoquePelaOrdemDosCabecalhos ==
    /\ script = "v1"
    /\ produtosAtuaisRaw # <<>>
    /\ keys(produtosAtuaisRaw[1]) = <<<<"e","s","t","o","q","u","e">>, <<"s","a","l","d","o"," ","e","s","t","o","q","u","e">>>>
    /\ mapaColunasEncontradas.estoque = Str(<<"e","s","t","o","q","u","e">>)


(***************************************************************************)
(* One row: where the description comes from                               *)
(***************************************************************************)
\* the description of a row when the sources are tried in the order: column
\* named as a description, column named as a synonym, scan of the other
\* columns, rest of the code, 'Produto n'
descricaoPorCamadas(porNome, porSinonimo, porVarredura, porCodigo, idx) ==
    IF porNome.achou THEN porNome.valor
    ELSE IF porSinonimo.achou THEN porSinonimo.valor
    ELSE IF porVarredura.achou THEN porVarredura.valor
    ELSE IF porCodigo.achou /\ ~estaVazio(porCodigo.valor) THEN porCodigo.valor
    ELSE Str(<<"P","r","o","d","u","t","o"," ">> \o DigitosDe(idx + 1))

\* C9: in v2 the description of a row is the first non-empty result of: the
\* columns named 'Descrição', 'Descricao', 'Descr', 'Desc', 'Description';
\* the columns named by a synonym ('Nome', ...); the scan of the remaining
\* columns; the text after the first space of the code; else 'Produto n'.
DescricaoEmCamadas ==
    (script = "v2" /\ index = 1 /\ Len(produtosNovos) = 1) =>
        Campo(produtosNovos[1], "Descrição")
            = descricaoPorCamadas(
                  descricaoDeColuna(produtosAtuaisRaw[1], SubSeq(colunasDescricao, 1, 5)),
                  descricaoDeColuna(produtosAtuaisRaw[1], SubSeq(colunasDescricao, 6, 10)),
                  descricaoDeQualquerColuna(produtosAtuaisRaw[1], keys(produtosAtuaisRaw[1])),
                  descricaoDoCodigo(produtosAtuaisRaw[1]),
                  0)

\* the text has white space with other characters on both sides
temEspacoInterno(s) ==
    \E i \in 1..Len(s) :
        /\ EhEspacoBranco(s[i])
        /\ \E j \in 1..(i - 1) : ~EhEspacoBranco(s[j])
        /\ \E j \in (i + 1)..Len(s) : ~EhEspacoBranco(s[j])

\* where the first run of white space starts
inicioDoEspaco(s) ==
    CHOOSE i \in 1..Len(s) : EhEspacoBranco(s[i]) /\ \A j \in 1..(i - 1) : ~EhEspacoBranco(s[j])

\* the text before the first run of white space, and the text after it
antesDoEspaco(s) == SubSeq(s, 1, inicioDoEspaco(s) - 1)
depoisDoEspaco(s) == trimStart(SubSeq(s, inicioDoEspaco(s), Len(s)))

\* the code of the row as the converters read it
codigoBruto(produtoRaw, mapa) ==
    obterValorSeguro(produtoRaw, nomesOu(mapa.codigo, nomesCodigo), Vazia)

\* the row gives no description but through its code
semOutraFonte(sc, produtoRaw, mapa) ==
    IF sc = "v1"
    THEN estaVazio(obterValorSeguro(produtoRaw, nomesOu(mapa.descricao, nomesDescricao), Vazia))
    ELSE /\ ~descricaoDeColuna(produtoRaw, colunasDescricao).achou
         /\ ~descricaoDeQualquerColuna(produtoRaw, keys(produtoRaw)).achou

\* C10: in part_001 and v2, a row whose code has white space inside and that
\* has no other source of description gets as Descrição the text of the code
\* after its first run of white space and as Código the text before it.
CodigoSeparado ==
    (/\ script \in {"v1", "v2"} /\ index = 1 /\ Len(produtosNovos) = 1
     /\ codigoBruto(produtosAtuaisRaw[1], mapaColunasEncontradas).t = "string"
     /\ temEspacoInterno(codigoBruto(produtosAtuaisRaw[1], mapaColunasEncontradas).s)
     /\ semOutraFonte(script, produtosAtuaisRaw[1], mapaColunasEncontradas))
    => /\ Campo(produtosNovos[1], "Descrição")
            = Str(depoisDoEspaco(codigoBruto(produtosAtuaisRaw[1], mapaColunasEncontradas).s))
       /\ Campo(produtosNovos[1], "Código")
            = Str(antesDoEspaco(codigoBruto(produtosAtuaisRaw[1], mapaColunasEncontradas).s))


(***************************************************************************)
(* One row of v2: the placeholder, the scan of the columns                 *)
(***************************************************************************)
\* a method of extrairDescricao gave a text that is not blank
deuTexto(m) == m.achou /\ ~estaVazio(m.valor)

\* 'Produto n' for the row at position n
produtoN(n) == Str(<<"P","r","o","d","u","t","o"," ">> \o DigitosDe(n))

\* the row gives nothing under a description or synonym column, nothing that
\* the scan of the other columns accepts, and no text after a space of its code
semFonteDeDescricao(produtoRaw) ==
    /\ ~deuTexto(descricaoDeColuna(produtoRaw, colunasDescricao))
    /\ ~deuTexto(descricaoDeQualquerColuna(produtoRaw, keys(produtoRaw)))
    /\ ~deuTexto(descricaoDoCodigo(produtoRaw))

\* C11: in v2 a row with no description or synonym column value, no value the
\* scan accepts and no splittable code gets Descrição = 'Produto n', n its
\* 1-based position, and the placeholder warning is logged for it.
DescricaoGenerica ==
    (/\ script = "v2" /\ index = 1 /\ Len(produtosNovos) = 1
     /\ semFonteDeDescricao(produtosAtuaisRaw[1]))
    => /\ Campo(produtosNovos[1], "Descrição") = produtoN(1)
       /\ avisoDescricaoPadrao(extrairDescricao(produtosAtuaisRaw[1], mapaColunasEncontradas, 0))


\* C12: part_001 and v2 turn the one row {Código: '123 Parafuso Phillips',
\* Preço Varejo: '10,50'} into one record with Código '123', Descrição
\* 'Parafuso Phillips', Preço 10.5, ID 1 and '' or null in every other column.
ExemploParafuso ==
    (script \in {"v1", "v2"} /\ planilha = PlanilhaDoExemplo /\ index = 1) =>
        /\ Len(produtosNovos) = 1
        /\ Campo(produtosNovos[1], "ID") = Num(1)
        /\ Campo(produtosNovos[1], "Código") = Str(<<"1","2","3">>)
        /\ Campo(produtosNovos[1], "Descrição") = Str(<<"P","a","r","a","f","u","s","o"," ","P","h","i","l","l","i","p","s">>)
        /\ Campo(produtosNovos[1], "Preço") = Decimal(105, 1)
        /\ \A i \in 1..Len(produtosNovos[1]) :
              produtosNovos[1][i].k \notin {"ID", "Código", "Descrição", "Preço"}
                  => produtosNovos[1][i].v \in {Vazia, Null}


\* the cell is in a column the scan does not skip and holds a string of three
\* or more characters with a letter
qualifica(e) ==
    /\ ~colunaExcluida(e.k)
    /\ ~estaVazio(e.v) /\ e.v.t = "string"
    /\ Len(e.v.s) >= 3 /\ temLetra(e.v.s)

qualificados(produtoRaw) == SelectSeq(produtoRaw, qualifica)

\* C13: in v2, when no description or synonym column gives a value and two or
\* more columns that the scan does not skip hold a qualifying value, the
\* Descrição is the longest of the qualifying values, whatever the column order.
VarreduraPrefereMaisLongo ==
    (/\ script = "v2" /\ index = 1 /\ Len(produtosNovos) = 1
     /\ ~deuTexto(descricaoDeColuna(produtosAtuaisRaw[1], colunasDescricao))
     /\ Len(qualificados(produtosAtuaisRaw[1])) >= 2)
    => /\ \E i \in 1..Len(produtosAtuaisRaw[1]) :
              /\ qualifica(produtosAtuaisRaw[1][i])
              /\ produtosAtuaisRaw[1][i].v = Campo(produtosNovos[1], "Descrição")
       /\ \A i \in 1..Len(produtosAtuaisRaw[1]) :
              qualifica(produtosAtuaisRaw[1][i])
                  => Len(produtosAtuaisRaw[1][i].v.s) <= Len(Campo(produtosNovos[1], "Descrição").s)

\* the row has exactly two columns, named neither as a description nor as a
\* column the scan skips, that hold a and b in one of the two orders
doisCandidatos(produtoRaw, a, b) ==
    /\ Len(produtoRaw) = 2
    /\ \A i \in 1..2 : /\ ~combina(produtoRaw[i].k, colunasDescricao)
                        /\ ~colunaExcluida(produtoRaw[i].k)
    /\ <<produtoRaw[1].v, produtoRaw[2].v>> \in {<<a, b>>, <<b, a>>}

\* C14: in v2 a row with two such columns holding 'AB' and 'Blue Widget', in
\* either order, gets Descrição = 'Blue Widget'.
ABeBlueWidget ==
    (/\ script = "v2" /\ index = 1 /\ Len(produtosNovos) = 1
     /\ doisCandidatos(produtosAtuaisRaw[1], Str(<<"A","B">>), Str(<<"B","l","u","e"," ","W","i","d","g","e","t">>)))
    => Campo(produtosNovos[1], "Descrição") = Str(<<"B","l","u","e"," ","W","i","d","g","e","t">>)

\* 'AB' comes first in the row and 'Blue Widget' is the description
ABPrimeiro ==
    /\ script = "v2" /\ index = 1 /\ Len(produtosNovos) = 1
    /\ doisCandidatos(produtosAtuaisRaw[1], Str(<<"A","B">>), Str(<<"B","l","u","e"," ","W","i","d","g","e","t">>))
    /\ produtosAtuaisRaw[1][1].v = Str(<<"A","B">>)
    /\ Campo(produtosNovos[1], "Descrição") = Str(<<"B","l","u","e"," ","W","i","d","g","e","t">>)

\* C15: in v2 a Descrição that comes neither from a description or synonym
\* column, nor from the code split, nor from the placeholder is the value of a
\* column the scan does not skip; it is never the whole code.
VarreduraPoupaExcluidas ==
    (/\ script = "v2" /\ index = 1 /\ Len(produtosNovos) = 1
     /\ ~deuTexto(descricaoDeColuna(produtosAtuaisRaw[1], colunasDescricao))
     /\ ~deuTexto(descricaoDoCodigo(produtosAtuaisRaw[1]))
     /\ Campo(produtosNovos[1], "Descrição") # produtoN(1))
    => /\ \E i \in 1..Len(produtosAtuaisRaw[1]) :
              /\ ~colunaExcluida(produtosAtuaisRaw[1][i].k)
              /\ produtosAtuaisRaw[1][i].v = Campo(produtosNovos[1], "Descrição")
       /\ Campo(produtosNovos[1], "Descrição") # Campo(produtosNovos[1], "Código")


(***************************************************************************)
(* One row: numbers, composite texts                                       *)
(***************************************************************************)
\* the text is digits in groups separated by '.', then at most one ',' and
\* more digits, with at most one sign in front
formaBrasileira(s) ==
    LET corpo == IF s # <<>> /\ s[1] \in {"+", "-"} THEN Tail(s) ELSE s
    IN /\ \E i \in 1..Len(corpo) : EhDigito(corpo[i])
       /\ \A i \in 1..Len(corpo) : EhDigito(corpo[i]) \/ corpo[i] \in {".", ","}
       /\ Cardinality({i \in 1..Len(corpo) : corpo[i] = ","}) <= 1
       /\ \A i \in 1..Len(corpo) : \A j \in 1..(i - 1) : ~(corpo[j] = "," /\ corpo[i] = ".")

\* the number such a text writes: its digits, the ones after the ',' being decimals
valorBrasileiro(s) ==
    LET digitos == SelectSeq(s, EhDigito)
        casas == IF \E i \in 1..Len(s) : s[i] = ","
                 THEN Len(s) - (CHOOSE i \in 1..Len(s) : s[i] = ",")
                 ELSE 0
    IN Decimal((IF s[1] = "-" THEN -1 ELSE 1) * ValorDigitos(digitos), casas)

\* what the price cell v of a row becomes, with the default padrao
numeroPrevisto(v, padrao) ==
    CASE v.t \in {"undefined", "null", "NaN"} -> padrao
      [] v.t = "number" -> v
      [] OTHER -> IF formaBrasileira(v.s) THEN valorBrasileiro(v.s) ELSE padrao

\* C16: in the three scripts the conversion of the price never fails and gives
\* the default for no value or '', the number for a number, the number written
\* with '.' between thousands and ',' before the decimals for such a text
\* ('1.234,56' is 1234.56), and the default for any other text.
NumeroConvertido ==
    (index = 1 /\ Truthy(Obter(produtosAtuaisRaw[1], chavesSimples.codigo))) =>
        /\ Len(produtosNovos) = 1
        /\ Campo(produtosNovos[1], "Preço")
              = numeroPrevisto(Obter(produtosAtuaisRaw[1], chavesSimples.precoVarejo), Num(0))


\* 'rotulo: valor; ' for a value that is not blank, nothing for a blank one
segmentoPrevisto(rotulo, valor) ==
    IF estaVazio(valor) THEN <<>>
    ELSE rotulo \o <<":", " ">> \o String(valor) \o <<";", " ">>

\* C17: in the three scripts Observações is 'Preço atacado: v; ' for a
\* wholesale price v that is not empty followed by 'Preço promoção: v; ' for a
\* promotion price that is not empty, and Informações Adicionais is
\* 'Endereço 2: v; ' followed by 'Pendência: v; ' in the same way; a segment
\* is there exactly when its source is not empty.
TextosCompostos ==
    (index = 1 /\ Len(produtosNovos) = 1) =>
        /\ Campo(produtosNovos[1], "Observações")
              = Str(segmentoPrevisto(rotuloAtacado,
                                     Obter(produtosAtuaisRaw[1], chavesSimples.precoAtacado))
                    \o segmentoPrevisto(rotuloPromocao,
                                        Obter(produtosAtuaisRaw[1], chavesSimples.precoPromocao)))
        /\ Campo(produtosNovos[1], "Informações Adicionais")
              = Str(segmentoPrevisto(rotuloEndereco2,
                                     Obter(produtosAtuaisRaw[1], chavesSimples.endereco2))
                    \o segmentoPrevisto(rotuloPendencia,
                                        Obter(produtosAtuaisRaw[1], chavesSimples.pendencia)))


(***************************************************************************)
(* The run: missing input, failing write, nothing to save                  *)
(***************************************************************************)
\* C18: in the four scripts a run whose input file does not exist stops at
\* the existence check: it reads no workbook, processes no row and writes
\* no file, xlsx or csv.
EntradaInexistente ==
    ~entradaExiste =>
        /\ pc \in {"inicio", "fim"}
        /\ produtosAtuaisRaw = <<>>
        /\ index = 0
        /\ produtosNovos = <<>> /\ produtosSeparados = <<>>
        /\ sucessos = 0 /\ falhas = 0
        /\ saida = "nenhuma" /\ escritas = <<>>

\* a run of the separator is over after the check found no input file
SeparadorSemEntrada ==
    /\ script = "separador"
    /\ ~entradaExiste
    /\ pc = "fim"


\* a file name without its extension: what comes before its last '.'
nomeBase(nome) ==
    IF \E i \in 1..Len(nome) : nome[i] = "."
    THEN SubSeq(nome, 1, (CHOOSE i \in 1..Len(nome) :
                             nome[i] = "." /\ \A j \in (i + 1)..Len(nome) : nome[j] # ".") - 1)
    ELSE nome

\* C19: in the converters, when the write of the spreadsheet fails the run
\* then tries to write the records as CSV to the file with the base name of
\* the output file and the extension .csv, whatever the output file is
\* called; the write error reaches the catch only when that fails too.
FalhaDeEscritaVaiParaCsv ==
    (pc = "fim" /\ escritas # <<>> /\ escritas[1].falhou) =>
        /\ Len(escritas) = 2
        /\ escritas[2].formato = "csv"
        /\ escritas[2].arquivo = nomeBase(escritas[1].arquivo) \o <<".","c","s","v">>
        /\ (erroCapturado = "escrita") <=> escritas[2].falhou

\* C20: in the converters a run that converted no row, because all rows
\* failed or because there was none, writes no file.
SemRegistrosNadaEscrito ==
    (pc = "fim" /\ entradaExiste /\ produtosNovos = <<>>) =>
        escritas = <<>> /\ saida = "nenhuma"

(***************************************************************************)
(* The debug option                                                        *)
(***************************************************************************)
\* the command line without --debug and -d
semDebug(argumentos) == SelectSeq(argumentos, LAMBDA a : a # opcaoDebug /\ a # opcaoD)

\* the files a run of sc with these arguments reads and writes
arquivosDe(sc, argumentos) ==
    [entrada |-> arquivoEntradaDe(argumentos), saida |-> arquivoSaidaDe(sc, argumentos)]

\* C21: a run of part_001 or v2 with --debug or -d reads and writes the files
\* that the run without the option reads and writes (dados_atuais.xlsx and
\* dados_convertidos.xlsx when no file is named), so that the option changes
\* the log only
DebugSoRegistra ==
    script \in {"v1", "v2"} =>
        /\ arquivosDe(script, args) = arquivosDe(script, semDebug(args))
        /\ semDebug(args) = <<>> =>
              arquivosDe(script, args) = [entrada |-> dados_atuais, saida |-> dados_convertidos]
        /\ \A i \in 1..Len(escritas) :
              escritas[i].arquivo \in {arquivoSaidaDe(script, semDebug(args)),
                                       csvSaida(arquivoSaidaDe(script, semDebug(args)))}

ColunasDiretas ==
    {"Unidade", "NCM", "Cód no fornecedor", "Fornecedor", "Localização",
     "Meses Garantia no Fornecedor", "Grupo de produtos", "Departamento"}

\* C23: in part_001 and v2 every direct text field of a record is a text
\* without leading or trailing white space: '' or the trimmed source value
TextoDiretoAparado ==
    script \in {"v1", "v2"} =>
        \A i \in 1..Len(produtosNovos) :
            \A coluna \in ColunasDiretas :
                /\ EhString(Campo(produtosNovos[i], coluna))
                /\ trim(Campo(produtosNovos[i], coluna).s) = Campo(produtosNovos[i], coluna).s

(***************************************************************************)
(* What a pass of the row loop leaves alone                                *)
(***************************************************************************)
\* a step of part_001 or v2: the map changes only at the start, the rows read
\* stay as they are during the loop, and the record of a pass is the one
\* converterProduto gives for the row, the map and the index
passoSemTocar ==
    script \in {"v1", "v2"} =>
        /\ mapaColunasEncontradas' # mapaColunasEncontradas => pc = "inicio"
        /\ pc = "laco" =>
              /\ produtosAtuaisRaw' = produtosAtuaisRaw
              /\ index' = index + 1 =>
                    produtosNovos' =
                        Append(produtosNovos,
                               converterProduto(script, produtosAtuaisRaw[index + 1],
                                                mapaColunasEncontradas, index).produto)

\* C24: in part_001 and v2 the column map is set once, before the loop; a pass
\* of the loop changes neither the map nor any row read, and the record it
\* appends is a function of the row, the map and the index
LacoNaoTocaMapaNemLinhas == [][passoSemTocar]_vars

\* a run of v2 with a code column in its map has gone through two rows
DuasLinhasComMapa ==
    /\ script = "v2"
    /\ Truthy(mapaColunasEncontradas.codigo)
    /\ index = 2
    /\ Len(produtosNovos) = 2

(***************************************************************************)
(* The number of columns                                                   *)
(***************************************************************************)
\* the number of different column names of a record
numeroDeColunas(produto) == Cardinality({produto[i].k : i \in 1..Len(produto)})

\* C25, as stated: every record has exactly 57 columns
CinquentaESeteColunas ==
    \A j \in 1..Len(produtosNovos) :
        Len(produtosNovos[j]) = 57 /\ numeroDeColunas(produtosNovos[j]) = 57

\* C25, amended: every record of every converter has exactly 59 columns, the
\* 59 names of the output format
CinquentaENoveColunas ==
    \A j \in 1..Len(produtosNovos) :
        /\ Len(produtosNovos[j]) = 59
        /\ numeroDeColunas(produtosNovos[j]) = 59
        /\ Len(ColunasDoFormato) = 59

\* a run of conversor-simples.js has ended with two records
DoisRegistrosSimples ==
    /\ script = "simples"
    /\ pc = "fim"
    /\ Len(produtosNovos) = 2

(***************************************************************************)
(* The count of inferred descriptions                                      *)
(***************************************************************************)
\* the description converterProduto of part_001 reads from a column of row i
descricaoLida(i) ==
    obterValorSeguro(produtosAtuaisRaw[i], nomesOu(mapaColunasEncontradas.descricao, nomesDescricao),
                     Vazia)

\* row i got its description from the split of its code: no description was
\* read from a column, the code has a space in it and what follows the first
\* space is not blank
inferidaPorDivisao(i) ==
    /\ estaVazio(descricaoLida(i))
    /\ includes(codigoComoTexto(produtosAtuaisRaw[i], mapaColunasEncontradas).s, <<" ">>)
    /\ ~estaVazio(Campo(produtosNovos[i], "Descrição"))

\* C26: in part_001 descricoesInferidas never exceeds sucessos, and it counts
\* the converted rows whose description came from the split of the code; a row
\* whose description was read from a column is not counted
InferidasContamDivisoes ==
    script = "v1" =>
        /\ descricoesInferidas <= sucessos
        /\ descricoesInferidas = Cardinality({i \in 1..Len(produtosNovos) : inferidaPorDivisao(i)})

(***************************************************************************)
(* The empty-description warning of v2                                     *)
(***************************************************************************)
\* C27: in v2 no record has a blank Descrição, whatever its row held, so that
\* avisosDescricaoVazia stays empty to the end of the run
SemAvisoDeDescricaoVazia ==
    script = "v2" =>
        /\ avisosDescricaoVazia = <<>>
        /\ \A j \in 1..Len(produtosNovos) : ~estaVazio(Campo(produtosNovos[j], "Descrição"))

\* a run of v2 has ended with the record of a code ending in a space, whose
\* description is the generic one
CodigoTerminadoEmEspaco ==
    /\ script = "v2"
    /\ pc = "fim"
    /\ Len(produtosNovos) = 1
    /\ Campo(produtosNovos[1], "Código") = Str(<<"7", " ">>)
    /\ Campo(produtosNovos[1], "Descrição") = Str(<<"P","r","o","d","u","t","o"," ","1">>)

(***************************************************************************)
(* The separator, row by row                                               *)
(***************************************************************************)
\* the cell holds a code: it is there and is not ''
temCodigo(v) == v.t \notin {"undefined", "null"} /\ v # Vazia

\* the code has a space in it
codigoComEspaco(v) == temCodigo(v) /\ includes(String(v), <<" ">>)

\* where the first space of s is
primeiroEspaco(s) == CHOOSE i \in 1..Len(s) : s[i] = " " /\ \A j \in 1..(i - 1) : s[j] # " "

\* output row o is input row r with the code column holding the text before
\* the first space of the code, 'Descrição' holding the text after it, and
\* every other column as it was
soCodigoEDescricaoMudam(r, o, coluna, codigo) ==
    /\ Obter(o, coluna) = Str(SubSeq(codigo, 1, primeiroEspaco(codigo) - 1))
    /\ Obter(o, <<"D","e","s","c","r","i","ç","ã","o">>) =
          Str(SubSeq(codigo, primeiroEspaco(codigo) + 1, Len(codigo)))
    /\ \A i \in 1..Len(o) :
          o[i].k \notin {coluna, <<"D","e","s","c","r","i","ç","ã","o">>} =>
              hasOwnProperty(r, o[i].k) /\ Obter(r, o[i].k) = o[i].v
    /\ \A i \in 1..Len(r) : hasOwnProperty(o, r[i].k)

\* C28: the separator gives one output row per input row, in the same order:
\* the row itself when its code is empty or has no space, the row with only
\* its code column and 'Descrição' changed when the code has a space; the rows
\* read stay as they were read, and the two counters add up to the number of
\* rows gone through that have a code
SeparadorLinhaALinha ==
    script = "separador" /\ pc # "inicio" /\ entradaExiste =>
        /\ produtosAtuaisRaw = sheet_to_json(script, planilha)
        /\ Len(produtosSeparados) = index
        /\ \A i \in 1..Len(produtosSeparados) :
              IF codigoComEspaco(Obter(produtosAtuaisRaw[i], colunaCodigo.s))
              THEN soCodigoEDescricaoMudam(produtosAtuaisRaw[i], produtosSeparados[i],
                                           colunaCodigo.s,
                                           String(Obter(produtosAtuaisRaw[i], colunaCodigo.s)))
              ELSE produtosSeparados[i] = produtosAtuaisRaw[i]
        /\ codigosComEspaco + codigosSemEspaco =
              Cardinality({i \in 1..index :
                              temCodigo(Obter(produtosAtuaisRaw[i], colunaCodigo.s))})

(***************************************************************************)
(* The separator applied to its own output                                 *)
(***************************************************************************)
\* the row the loop of main gives for row o and the code column of the run
separadaDeNovo(o) ==
    separar(o, colunaCodigo.s, Obter(o, colunaCodigo.s), [semEspaco |-> 0, comEspaco |-> 0]).produtoNovo

\* C29: the split changes none of its own output rows, the code column being
\* the same: after one pass no code has a space in it
SeparacaoIdempotente ==
    script = "separador" =>
        \A i \in 1..Len(produtosSeparados) :
            /\ ~codigoComEspaco(Obter(produtosSeparados[i], colunaCodigo.s))
            /\ separadaDeNovo(produtosSeparados[i]) = produtosSeparados[i]

(***************************************************************************)
(* The numeric columns                                                     *)
(***************************************************************************)
\* the columns of the record that parseNumero fills
ColunasNumericas == {"Preço", "Estoque", "Preço de custo", "Preço de compra"}

\* the values the converter of sc reads for the three sources: the cells under
\* 'Preço Varejo', 'Saldo Estoque' and 'Preço Compra' in conversor-simples.js,
\* the locals of converterProduto in the other two
fontesNumericas(sc, linha, mapa) ==
    IF sc = "simples"
    THEN [precoVarejo |-> Obter(linha, <<"P","r","e","ç","o"," ","V","a","r","e","j","o">>),
          estoque |-> Obter(linha, <<"S","a","l","d","o"," ","E","s","t","o","q","u","e">>),
          precoCompra |-> Obter(linha, <<"P","r","e","ç","o"," ","C","o","m","p","r","a">>)]
    ELSE camposDiretos(linha, mapa)

\* the source value is missing, blank or the text 'abc'
semNumero(v) == estaVazio(v) \/ v = Str(<<"a","b","c">>)

\* the record holds 0 where the row has no number
zeroSemFonte(fontes, produto) ==
    /\ semNumero(fontes.precoVarejo) => Campo(produto, "Preço") = Num(0)
    /\ semNumero(fontes.estoque) => Campo(produto, "Estoque") = Num(0)
    /\ semNumero(fontes.precoCompra) => Campo(produto, "Preço de compra") = Num(0)

\* C30: in every converter Preço, Estoque, Preço de custo and Preço de compra
\* of every record are numbers, 0 when the source is missing, blank or no
\* number, and Preço de custo equals Preço de compra
NumerosSempre ==
    /\ \A j \in 1..Len(produtosNovos) :
          /\ \A coluna \in ColunasNumericas : EhNumero(Campo(produtosNovos[j], coluna))
          /\ Campo(produtosNovos[j], "Preço de custo") = Campo(produtosNovos[j], "Preço de compra")
    /\ Len(produtosAtuaisRaw) = 1 /\ Len(produtosNovos) = 1 =>
          zeroSemFonte(fontesNumericas(script, produtosAtuaisRaw[1], mapaColunasEncontradas),
                       produtosNovos[1])

\* a record of conversor-simples.js with a cost and no stock
CustoSemEstoque ==
    /\ script = "simples"
    /\ Len(produtosNovos) = 1
    /\ Campo(produtosNovos[1], "Preço de compra") # Num(0)
    /\ Campo(produtosNovos[1], "Estoque") = Num(0)

====
